---- MODULE Spec2Model ----
(***************************************************************************)
(* TTCom: one TeamtalkServer session object (src/src/ttapi.py), the        *)
(* TeamTalkServerConnection objects it creates, and the threads that run   *)
(* their code: the command thread, the background login threads started    *)
(* by reconnect timers, and the watcher and the pinger of each connection. *)
(* The remote server and the network are the environment.                  *)
(***************************************************************************)
EXTENDS Integers, Sequences, FiniteSets, TLC

\* ---------------------------------------------------------------- bounds
MaxConns  == 2   \* connection objects one session creates in a run
MaxTimers == 2   \* reconnect timers (threading.Timer) started in a run
MaxLines  == 3   \* lines the watchers read from the server in a run
MaxCmds   == 2   \* commands the command thread issues in a run
MaxRequests == 3 \* commands issued in a run of requests
MaxReplies == 4  \* lines read by the watchers in a run of requests
MaxLen    == 3   \* characters of a parameter value
MaxClock  == 140 \* seconds a run of status changes lasts
MaxTriggers == 1 \* trigger actions that send with an id, in a run

\* ------------------------------------------------------ program constants
maxID == 127     \* TeamtalkServer.maxID

\* ------------------------------------------------------------ vocabulary
\* ServerState.states
states == <<"disconnected", "connecting", "connected", "loggingIn",
            "loginError", "loggingOut", "loggedIn">>

MyUid    == 7    \* userid of the welcome line
OtherUid == 9    \* userid of another user of the server
ChanId   == 1    \* channelid of an addchannel line
SubId    == 2    \* channelid of a channel below it
SubSubId == 3    \* channelid of a channel below that one

\* An inbound line, parsed: the event keyword and the one parameter the
\* handlers of this model read (0: the parameter is absent).
Ln(e, a) == [ev |-> e, arg |-> a]

\* AttrDict(): a record of the data model is a function from the keys it
\* stores to their values.
AttrDict == [k \in {} |-> 0]

\* dict.__setitem__ and dict.__delitem__ on a key that is stored
put(d, k, v) == (k :> v) @@ d

drop(d, k) == [x \in DOMAIN d \ {k} |-> d[x]]

\* A line with further parameters, more, by the names the server gave them.
LnP(e, a, more) == [ev |-> e, arg |-> a, more |-> more]

\* AttrDict's special adaptation: the other name of a channel id key.
alias(k) ==
  IF k = "chanid" THEN "channelid" ELSE IF k = "channelid" THEN "chanid" ELSE k

\* Whether AttrDict.__getitem__(k) finds a value (else it raises KeyError).
hasitem(d, k) == k \in DOMAIN d \/ alias(k) \in DOMAIN d

\* AttrDict.__getitem__ where hasitem: the key itself first, then its alias.
getitem(d, k) == IF k \in DOMAIN d THEN d[k] ELSE d[alias(k)]

\* AttrDict.__getattr__ for the keys that hold numbers (0: None).
getattr(d, k) == IF hasitem(d, k) THEN getitem(d, k) ELSE 0

\* AttrDict.__setitem__: the key as given (lower case), no aliasing.
setitem(d, k, v) == put(d, k, v)

\* AttrDict.__delitem__ where hasitem: the key itself, else its alias.
delitem(d, k) == IF k \in DOMAIN d THEN drop(d, k) ELSE drop(d, alias(k))

\* AttrDict.__setattr__ of a value other than None: a channel id goes to
\* the alias when the alias is stored.
setattr(d, k, v) == setitem(d, IF alias(k) \in DOMAIN d THEN alias(k) ELSE k, v)

\* AttrDict.__setattr__ of None: __delitem__, a KeyError ignored.
setattrNone(d, k) == IF hasitem(d, k) THEN delitem(d, k) ELSE d

\* dict.setdefault(k, AttrDict())
setdefault(m, k) == IF k \in DOMAIN m THEN m ELSE put(m, k, AttrDict)

\* dict.update, which AttrDict inherits: every key of e as it is named in e.
update(d, e) == e @@ d

\* The name under which a line of the model carries its parameter arg.
argKey(e) ==
  IF e \in {"addchannel", "removechannel", "updatechannel"} THEN "chanid"
  ELSE IF e = "kicked" THEN "kickerid"
  ELSE IF e \in {"begin", "end"} THEN "id"
  ELSE IF e = "serverupdate" THEN "usertimeout"
  ELSE "userid"

\* ParmLine.parms: the parameters of a line.
parmsOf(L) ==
  update(IF L.arg = 0 THEN AttrDict ELSE put(AttrDict, argKey(L.ev), L.arg),
         IF "more" \in DOMAIN L THEN L.more ELSE AttrDict)

\* What a server sends after the handshake, in the runs explored: around
\* login and logout, around a kick, and in answer to a command sent with an
\* id.
SessionLines == { Ln("ok", 0), Ln("error", 0), Ln("loggedout", 0), Ln("end", 1) }

DisconnectLines == { Ln("ok", 0), Ln("loggedout", 0) }

KickLines    == { Ln("ok", 0), Ln("kicked", OtherUid), Ln("loggedout", 0),
                  Ln("addchannel", ChanId) }

CollectLines == { Ln("ok", 0), Ln("begin", 1), Ln("end", 1),
                  Ln("useraccount", 0), Ln("loggedin", OtherUid) }

\* Lines of listings and other events, for the hooks.
HookLines == { Ln("ok", 0), Ln("begin", 1), Ln("end", 1), Ln("stats", 0),
               Ln("useraccount", 0), Ln("userbanned", 0),
               Ln("loggedin", OtherUid) }

\* The responses to two requests, the first of which may come late.
TimeoutLines == { Ln("begin", 1), Ln("end", 1), Ln("begin", 2), Ln("end", 2),
                  Ln("ok", 0) }

\* The answer to the login frame.
IdLines == { Ln("ok", 0) }

\* Pongs, inside and outside the block of the request with id 1.
PongLines == { Ln("ok", 0), Ln("begin", 1), Ln("end", 1), Ln("pong", 0) }

\* The users and the channels of the server coming and going. The channel
\* of adduser is named chanid (TeamTalk 5), that of updateuser channelid.
UserLines == { Ln("ok", 0), Ln("loggedin", OtherUid), Ln("loggedout", 0),
               Ln("loggedout", MyUid),
               LnP("adduser", OtherUid, [chanid |-> ChanId]),
               LnP("removeuser", OtherUid, [chanid |-> ChanId]),
               LnP("updateuser", OtherUid, [channelid |-> SubId]),
               LnP("addchannel", ChanId, [parentid |-> 0, name |-> "a"]),
               Ln("removechannel", ChanId) }

\* A root channel, a channel in it, a channel in that one, and the middle
\* one renamed.
ChannelLines ==
  { Ln("ok", 0),
    LnP("addchannel", ChanId, [parentid |-> 0, name |-> ""]),
    LnP("addchannel", SubId, [parentid |-> ChanId, name |-> "a"]),
    LnP("addchannel", SubSubId, [parentid |-> SubId, name |-> "b"]),
    LnP("updatechannel", SubId, [parentid |-> ChanId, name |-> "c"]) }

\* What the first line read by TeamTalkServerConnection.connect may be.
FirstLines == { Ln("welcome", MyUid), Ln("teamtalk", MyUid), Ln("error", 0) }

Conns   == 1..MaxConns
BgIds   == 1..MaxTimers
User    == <<"user", 0>>
Bg(i)   == <<"bg", i>>
W(c)    == <<"w", c>>
P(c)    == <<"p", c>>
Threads == {User} \cup { Bg(i) : i \in BgIds }
                  \cup { W(c) : c \in Conns } \cup { P(c) : c \in Conns }

NoLine == Ln("", 0)

VARIABLES
  srv,      \* the TeamtalkServer object (fields named as in the source)
  conns,    \* the TeamTalkServerConnection objects, by creation number
  nconn,    \* number of connection objects created
  thr,      \* per thread: program counter and locals
  ntimers,  \* number of reconnect timers started
  nlines,   \* number of lines read by watchers
  ncmds,    \* number of commands issued
  obs       \* observations of the run (not program state)

vars == <<srv, conns, nconn, thr, ntimers, nlines, ncmds, obs>>

\* ------------------------------------------------- TeamtalkServer (pure)
\* TeamtalkServer.__init__ followed by its call of disconnect() -> clear().
\* users and channels map an id to its record. me is the userid of the
\* record self.me refers to (0: None); meCut: that record has been deleted
\* from users since (self.me still refers to it).
\* autoLogin is set by the configuration reader (TTComCmd.py:264-265).
InitServer(al) ==
  [ state |-> "disconnected", conn |-> 0, manualCM |-> FALSE, autoLogin |-> al,
    curID |-> 0, waitID |-> 0, collecting |-> 0, outputCollection |-> <<>>,
    ev_loggedIn |-> FALSE, ev_loggedOut |-> FALSE, ev_idblockDone |-> FALSE,
    info |-> [userid |-> 0], users |-> AttrDict, channels |-> AttrDict,
    files |-> {}, me |-> 0, meCut |-> FALSE, triggers |-> <<>>,
    registered |-> TRUE, loginParms |-> AttrDict ]

\* TeamtalkServer.clear
clear(s) ==
  [ s EXCEPT !.conn = 0, !.waitID = 0, !.curID = 0,
             !.ev_loggedIn = FALSE, !.ev_loggedOut = FALSE,
             !.state = "disconnected", !.info = [userid |-> 0],
             !.channels = AttrDict, !.users = AttrDict, !.files = {},
             !.me = 0, !.meCut = FALSE ]

\* TeamtalkServer._handleRecycling(force=False): TRUE when it starts a Timer.
handleRecycling(s) == s.autoLogin # 0 /\ ~s.manualCM

\* TeamtalkServer._startCollecting
startCollecting(s, id) ==
  [ s EXCEPT !.ev_idblockDone = FALSE, !.waitID = id,
             !.outputCollection = <<>>, !.collecting = 1 ]

\* A _stopCollecting that leaves _collecting as it is.
stopCollectingKeep(s) == [ s EXCEPT !.outputCollection = <<>> ]

\* TeamtalkServer._stopCollecting: the new object; the lines it returns are
\* s.outputCollection.
stopCollecting(s) ==
  [ s EXCEPT !.collecting = 0, !.outputCollection = <<>> ]

\* parmline.parms.id == str(self.waitID): an absent id (None) equals none.
idIs(L, w) == L.arg # 0 /\ L.arg = w

isConnect(L)    == L.ev = "_connected_"
isDisconnect(L) == L.ev = "_disconnected_"

\* A _handleCollection that also lets the lines it collects through to the
\* handlers.
handleCollectionLeaky(s, L) ==
  IF s.collecting = 0 THEN [s |-> s, eaten |-> FALSE]
  ELSE IF s.collecting = 1 THEN
    IF L.ev = "begin" /\ idIs(L, s.waitID)
    THEN [ s |-> [s EXCEPT !.outputCollection = <<>>, !.collecting = 2,
                           !.ev_idblockDone = FALSE],
           eaten |-> TRUE ]
    ELSE IF isConnect(L) \/ isDisconnect(L)
    THEN [ s |-> [s EXCEPT !.collecting = 0, !.waitID = 0,
                           !.ev_idblockDone = TRUE],
           eaten |-> FALSE ]
    ELSE [s |-> s, eaten |-> FALSE]
  ELSE IF isConnect(L) \/ isDisconnect(L) \/ (L.ev = "end" /\ idIs(L, s.waitID))
  THEN [ s |-> [s EXCEPT !.collecting = 0, !.waitID = 0,
                         !.ev_idblockDone = TRUE],
         eaten |-> ~(isConnect(L) \/ isDisconnect(L)) ]
  ELSE [ s |-> [s EXCEPT !.outputCollection = Append(@, L)],
         eaten |-> FALSE ]

\* TeamtalkServer._handleCollection: the new object and the return value
\* (TRUE: the line is eaten, processLine returns at once).
handleCollection(s, L) ==
  IF s.collecting = 0 THEN [s |-> s, eaten |-> FALSE]
  ELSE IF s.collecting = 1 THEN
    IF L.ev = "begin" /\ idIs(L, s.waitID)
    THEN [ s |-> [s EXCEPT !.outputCollection = <<>>, !.collecting = 2,
                           !.ev_idblockDone = FALSE],
           eaten |-> TRUE ]
    ELSE IF isConnect(L) \/ isDisconnect(L)
    THEN [ s |-> [s EXCEPT !.collecting = 0, !.waitID = 0,
                           !.ev_idblockDone = TRUE],
           eaten |-> FALSE ]
    ELSE [s |-> s, eaten |-> FALSE]
  ELSE IF isConnect(L) \/ isDisconnect(L) \/ (L.ev = "end" /\ idIs(L, s.waitID))
  THEN [ s |-> [s EXCEPT !.collecting = 0, !.waitID = 0,
                         !.ev_idblockDone = TRUE],
         eaten |-> ~(isConnect(L) \/ isDisconnect(L)) ]
  ELSE [ s |-> [s EXCEPT !.outputCollection = Append(@, L)],
         eaten |-> TRUE ]

\* processLine, lines 501-504
isOurBlockMarker(s, L) ==
  s.waitID > 0 /\ L.ev \in {"begin", "end"} /\ idIs(L, s.waitID)

\* ---------------------------------------------------------- event handlers
\* Each handler gives the new object, whether it raised, and whether it
\* started a reconnect timer.
Ret(s, r, t) == [s |-> s, raised |-> r, sched |-> t]

event__connected_(s, L) == Ret(s, FALSE, FALSE)

event__disconnected_(s, L) == Ret(clear(s), FALSE, handleRecycling(clear(s)))

event_begin(s, L) == Ret(s, FALSE, FALSE)

event_end(s, L) ==
  IF s.waitID # 0 /\ idIs(L, s.waitID)
  THEN Ret([s EXCEPT !.waitID = 0, !.ev_idblockDone = TRUE], FALSE, FALSE)
  ELSE Ret(s, FALSE, FALSE)

\* The name of the record c as "%s" prints it.
nameOf(c) == IF "name" \in DOMAIN c THEN c["name"] ELSE "None"

RECURSIVE pathOf(_, _)
\* TeamtalkServer._updateChannelValue, the loop from the record c: the path
\* as the names from the top (<<>>: "/"); ok is FALSE when
\* channels[c.parentid] raises KeyError.
pathOf(chs, c) ==
  IF getattr(c, "parentid") = 0 THEN [ok |-> TRUE, path |-> <<>>]
  ELSE IF c["parentid"] \notin DOMAIN chs THEN [ok |-> FALSE, path |-> <<>>]
  ELSE LET up == pathOf(chs, chs[c["parentid"]])
       IN  [ok |-> up.ok, path |-> Append(up.path, nameOf(c))]

RECURSIVE preserved(_, _, _)
\* updateParms, "for k in preserve: parms[k] = oldParms[k]" on the cleared
\* record acc; oldParms is a plain dict and raises KeyError.
preserved(oldParms, ks, acc) ==
  IF ks = <<>> THEN [rec |-> acc, raised |-> FALSE]
  ELSE IF Head(ks) \notin DOMAIN oldParms THEN [rec |-> acc, raised |-> TRUE]
  ELSE preserved(oldParms, Tail(ks), setitem(acc, Head(ks), oldParms[Head(ks)]))

\* TeamtalkServer._updateChannelValue(chan) with the path p its loop found:
\* chan["channel"] = path, unless the loop raised.
updateChannelValue(chan, p) ==
  IF p.ok THEN [rec |-> setitem(chan, "channel", p.path), raised |-> FALSE]
  ELSE [rec |-> chan, raised |-> TRUE]

\* updateParms after parms.update(newParms), parms being the merged record:
\* the special handling of the channel path.
updateParmsPath(chs, oldParms, newParms, parms) ==
  IF \/ "parentid" \in DOMAIN newParms /\ "chanid" \in DOMAIN oldParms
     \/ "name" \in DOMAIN newParms
  THEN updateChannelValue(parms, pathOf(chs, parms))
  ELSE [rec |-> parms, raised |-> FALSE]

\* updateParms after the preserve loop, pr.
updateParmsMerge(chs, oldParms, newParms, pr) ==
  IF pr.raised THEN pr
  ELSE updateParmsPath(chs, oldParms, newParms, update(pr.rec, newParms))

\* TeamtalkServer.updateParms(category, rec, newParms, silent, preserve)
\* with self.channels = chs: the record as it is left, and whether the call
\* raised. (statustime and the report of the changes are left out.)
updateParms(chs, rec, newParms, preserve) ==
  updateParmsMerge(chs, rec, newParms,
                   IF preserve = <<>> THEN [rec |-> rec, raised |-> FALSE]
                   ELSE preserved(rec, preserve, AttrDict))

\* TeamtalkServer.channelname(id) raises: KeyError for an unknown channel,
\* TypeError ("/".join with two arguments) for a record without a path.
channelnameRaises(s, id) ==
  id \notin DOMAIN s.channels \/ "channel" \notin DOMAIN s.channels[id]

\* "del self.users[k]": self.me keeps the record when it was that one.
delUser(s, k) ==
  [s EXCEPT !.users = drop(@, k), !.meCut = @ \/ (s.me = k /\ k # 0)]

\* updateParms merges the welcome parameters into info; users.setdefault
event_welcome(s, L) ==
  LET userid == L.arg
      users  == setdefault(s.users, userid)
  IN  Ret([s EXCEPT !.info = [userid |-> userid],
                    !.users = put(users, userid,
                                  setitem(users[userid], "userid", userid)),
                    !.me = userid, !.meCut = FALSE], FALSE, FALSE)

\* TeamtalkServer.channelname(id) for a channel whose record has a path:
\* "/" (the path <<>>) is printed as "the root channel".
RootName == <<"the root channel">>

channelname(s, id) ==
  IF s.channels[id]["channel"] = <<>> THEN RootName ELSE s.channels[id]["channel"]

\* _handleInitChannel lines 1334-1336: c["channelid"] or channelname raises
\* for one of the channels.
matchRaises(s) ==
  \E k \in DOMAIN s.channels :
    \/ ~hasitem(s.channels[k], "channelid")
    \/ channelnameRaises(s, getitem(s.channels[k], "channelid"))

\* _handleInitChannel lines 1334-1336: the channels whose name is the one
\* asked for.
matching(s, channel) ==
  { k \in DOMAIN s.channels :
      channelname(s, getitem(s.channels[k], "channelid")) = channel }

\* _handleInitChannel lines 1337-1338: len(channel) != 1: return (0);
\* chanid = channel[0].chanid.
matched(s, ks) ==
  IF Cardinality(ks) # 1 THEN 0
  ELSE getattr(s.channels[CHOOSE k \in ks : TRUE], "chanid")

\* What _handleInitChannel did: whether it raised, whether it sent a join
\* line, and the chanid and the password ("": none) of that line.
NoJoin == [raised |-> FALSE, sent |-> FALSE, chanid |-> 0, password |-> ""]

\* _handleInitChannel lines 1339-1343 for the channel chanid (0: none): the
\* line, with the password when there is one, goes to self.send, which
\* raises when the connection is gone (up: it is there).
joinLine(lp, chanid, up) ==
  IF chanid = 0 THEN NoJoin
  ELSE IF ~up THEN [NoJoin EXCEPT !.raised = TRUE]
  ELSE [raised |-> FALSE, sent |-> TRUE, chanid |-> chanid,
        password |-> IF "chanpassword" \in DOMAIN lp THEN lp["chanpassword"]
                     ELSE ""]

\* _handleInitChannel with loginParms = lp (lines 1326-1343). The path "/"
\* is <<>>. (The values tried are not empty.)
initChannel(s, lp, up) ==
  IF "chanid" \in DOMAIN lp THEN joinLine(lp, lp["chanid"], up)
  ELSE IF "channel" \notin DOMAIN lp THEN NoJoin
  ELSE IF lp["channel"] = <<>> THEN joinLine(lp, 1, up)
  ELSE IF matchRaises(s) THEN [NoJoin EXCEPT !.raised = TRUE]
  ELSE joinLine(lp, matched(s, matching(s, lp["channel"])), up)

\* A _handleInitChannel in which channel overrides chanid.
handleInitChannelByPath(s, up) ==
  initChannel(s, IF "channel" \in DOMAIN s.loginParms
                 THEN drop(s.loginParms, "chanid") ELSE s.loginParms, up)

\* TeamtalkServer._handleInitChannel
handleInitChannel(s, up) == initChannel(s, s.loginParms, up)

\* The connection object of the session is there and its socket can send.
connUp(s) == s.conn # 0 /\ conns[s.conn].net = "up"

\* event_ok lines 1310-1319, given what _handleInitChannel did.
loginOk(s, hic) ==
  Ret([s EXCEPT !.state = "loggedIn", !.ev_loggedIn = TRUE], hic.raised, FALSE)

event_ok(s, L) ==
  IF s.state = "loggingIn"
  THEN loginOk(s, handleInitChannel(s, connUp(s)))
  ELSE Ret(s, FALSE, FALSE)

event_error(s, L) ==
  IF s.state = "loggingIn"
  THEN Ret([s EXCEPT !.state = "loginError", !.ev_loggedIn = TRUE], FALSE, FALSE)
  ELSE Ret(s, FALSE, FALSE)

\* users.setdefault(uid, AttrDict()) and the record users[uid]
userRecord(s, uid) == IF uid \in DOMAIN s.users THEN s.users[uid] ELSE AttrDict

\* The record of uid after updateParms, up, stored. (The key "server" of a
\* user record is left out.)
loggedinUser(s, uid, up) ==
  Ret([s EXCEPT !.users = put(@, uid, up.rec)], up.raised, FALSE)

event_loggedin(s, L) ==
  loggedinUser(s, getattr(parmsOf(L), "userid"),
               updateParms(s.channels,
                           userRecord(s, getattr(parmsOf(L), "userid")),
                           parmsOf(L), <<>>))

\* An event_loggedout that keeps the users and the channels of the session
\* on the logout of this user.
event_loggedoutKeep(s, L) ==
  IF L.arg = 0
  THEN LET s1 == [s EXCEPT !.state = "connected",
                           !.ev_loggedIn = FALSE, !.ev_loggedOut = TRUE]
       IN  Ret(s1, FALSE, handleRecycling(s1))
  ELSE IF L.arg \in DOMAIN s.users
  THEN Ret(delUser(s, L.arg), FALSE, FALSE)
  ELSE Ret(s, TRUE, FALSE)

\* "if not parms": the logout of this user; otherwise users[parms.userid]
\* raises KeyError for an unknown user.
event_loggedout(s, L) ==
  IF DOMAIN parmsOf(L) = {}
  THEN LET s1 == [s EXCEPT !.state = "connected", !.channels = AttrDict,
                           !.users = put(AttrDict, s.info.userid,
                                         setitem(AttrDict, "userid",
                                                 s.info.userid)),
                           !.me = s.info.userid, !.meCut = FALSE,
                           !.ev_loggedIn = FALSE, !.ev_loggedOut = TRUE]
       IN  Ret(s1, FALSE, handleRecycling(s1))
  ELSE IF getattr(parmsOf(L), "userid") \in DOMAIN s.users
  THEN Ret(delUser(s, getattr(parmsOf(L), "userid")), FALSE, FALSE)
  ELSE Ret(s, TRUE, FALSE)

\* The record of the channel id after updateParms, up, stored.
channelUpdated(s, id, up) ==
  Ret([s EXCEPT !.channels = put(@, id, up.rec)], up.raised, FALSE)

\* event_addchannel for the channel id: channels.setdefault and updateParms.
addchannel(s, id, parms) ==
  channelUpdated(s, id,
                 updateParms(s.channels,
                             IF id \in DOMAIN s.channels THEN s.channels[id]
                             ELSE AttrDict, parms, <<>>))

event_addchannel(s, L) ==
  addchannel(s, getattr(parmsOf(L), "channelid"), parmsOf(L))

\* event_removechannel for the channel id: channels[id] raises KeyError for
\* an unknown channel; the user records are not looked at.
removechannel(s, id) ==
  IF id \notin DOMAIN s.channels THEN Ret(s, TRUE, FALSE)
  ELSE Ret([s EXCEPT !.channels = drop(@, id)], FALSE, FALSE)

event_removechannel(s, L) == removechannel(s, getattr(parmsOf(L), "channelid"))

\* event_updatechannel for the channel id: the record is replaced by its
\* parentid, its path and the parameters of the line.
updatechannel(s, id, parms) ==
  IF id \notin DOMAIN s.channels THEN Ret(s, TRUE, FALSE)
  ELSE channelUpdated(s, id, updateParms(s.channels, s.channels[id], parms,
                                         <<"parentid", "channel">>))

event_updatechannel(s, L) ==
  updatechannel(s, getattr(parmsOf(L), "channelid"), parmsOf(L))

\* event_adduser and event_updateuser after updateParms, up: the KeyError
\* branch has made the record of a user that was not announced by loggedin
\* and marks it temporary. after: what follows raises.
userUpdated(s, uid, known, up, after) ==
  Ret([s EXCEPT !.users = put(@, uid,
                              IF known \/ up.raised THEN up.rec
                              ELSE setattr(up.rec, "temporary", TRUE))],
      up.raised \/ after, FALSE)

\* event_adduser and event_updateuser for the user uid.
updateUser(s, uid, parms, after) ==
  userUpdated(s, uid, uid \in DOMAIN s.users,
              updateParms(s.channels, userRecord(s, uid), parms, <<>>), after)

\* channelname is called for the report, outside the login.
event_adduser(s, L) ==
  updateUser(s, getattr(parmsOf(L), "userid"), parmsOf(L),
             /\ s.state # "loggingIn"
             /\ channelnameRaises(s, getattr(parmsOf(L), "channelid")))

\* event_removeuser after del u['channelid'], u being the record left: the
\* path goes too, and a temporary record is deleted.
removeuserLeft(s, uid, u) ==
  IF "temporary" \in DOMAIN u THEN Ret(delUser(s, uid), FALSE, FALSE)
  ELSE Ret([s EXCEPT !.users = put(@, uid, IF "channel" \in DOMAIN u
                                           THEN drop(u, "channel") ELSE u)],
           FALSE, FALSE)

\* event_removeuser for the user uid and the channel cid: channelname comes
\* first; then users[uid] and del u['channelid'], which raise KeyError.
removeuser(s, uid, cid) ==
  IF \/ channelnameRaises(s, cid)
     \/ uid \notin DOMAIN s.users
     \/ ~hasitem(s.users[uid], "channelid")
  THEN Ret(s, TRUE, FALSE)
  ELSE removeuserLeft(s, uid, delitem(s.users[uid], "channelid"))

event_removeuser(s, L) ==
  removeuser(s, getattr(parmsOf(L), "userid"),
             getattr(parmsOf(L), "channelid"))

event_updateuser(s, L) ==
  updateUser(s, getattr(parmsOf(L), "userid"), parmsOf(L), FALSE)

\* nonEmptyNickname(parms.kickerid) raises AttributeError when kickerid is
\* absent (None has no get), before manualCM is assigned.
event_kicked(s, L) ==
  IF L.arg = 0 THEN Ret(s, TRUE, FALSE)
  ELSE Ret([s EXCEPT !.manualCM = (s.autoLogin # 2)], FALSE, FALSE)

event_useraccount(s, L) == Ret(s, FALSE, FALSE)

event_stats(s, L) == Ret(s, FALSE, FALSE)

event_userbanned(s, L) == Ret(s, FALSE, FALSE)

event_pong(s, L) == Ret(s, FALSE, FALSE)

\* event_serverupdate given what updateParms made of self.info, up.
infoUpdated(s, up) == Ret([s EXCEPT !.info = up.rec], up.raised, FALSE)

event_serverupdate(s, L) ==
  infoUpdated(s, updateParms(s.channels, s.info, parmsOf(L), <<>>))

\* processLine, lines 514-519: eval("self.event_" + event) and the call; a
\* keyword that has no handler is reported and the line is left at that.
eventFunc(s, L) ==
  CASE L.ev = "_connected_"    -> event__connected_(s, L)
    [] L.ev = "_disconnected_" -> event__disconnected_(s, L)
    [] L.ev = "begin"          -> event_begin(s, L)
    [] L.ev = "end"            -> event_end(s, L)
    [] L.ev = "welcome"        -> event_welcome(s, L)
    [] L.ev = "ok"             -> event_ok(s, L)
    [] L.ev = "error"          -> event_error(s, L)
    [] L.ev = "loggedin"       -> event_loggedin(s, L)
    [] L.ev = "loggedout"      -> event_loggedout(s, L)
    [] L.ev = "addchannel"     -> event_addchannel(s, L)
    [] L.ev = "removechannel"  -> event_removechannel(s, L)
    [] L.ev = "updatechannel"  -> event_updatechannel(s, L)
    [] L.ev = "adduser"        -> event_adduser(s, L)
    [] L.ev = "removeuser"     -> event_removeuser(s, L)
    [] L.ev = "updateuser"     -> event_updateuser(s, L)
    [] L.ev = "kicked"         -> event_kicked(s, L)
    [] L.ev = "stats"          -> event_stats(s, L)
    [] L.ev = "useraccount"    -> event_useraccount(s, L)
    [] L.ev = "userbanned"     -> event_userbanned(s, L)
    [] L.ev = "pong"           -> event_pong(s, L)
    [] L.ev = "serverupdate"   -> event_serverupdate(s, L)
    [] OTHER                   -> Ret(s, FALSE, FALSE)


\* ------------------------------------------------------------- the objects
\* TeamTalkServerConnection.__init__. net is the state of the TCP connection
\* ("none": not yet made, "up", "down": the peer closed it or it failed);
\* closed is the socket object's own closed flag; curid is the id of the
\* block the watcher is in (0: None); usertimeout is in seconds (0: None).
NewConn == [callback |-> TRUE, shuttingDown |-> FALSE, net |-> "none",
            closed |-> FALSE, curid |-> 0, usertimeout |-> 0]

\* A thread: pc; the connection object it works on (conn); the command it
\* runs (cmd), sendWithWait's returnResults (rr) and the id it put on its
\* line (id).
NewThread(pc0) == [pc |-> pc0, conn |-> 0, cmd |-> "", rr |-> FALSE, id |-> 0]

\* A frame on the wire: the command keyword and its id= (0: none).
Frame(kind, id) == [kind |-> kind, id |-> id]

NoFrame == [kind |-> "", id |-> 0, conn |-> 0]

\* What the latest processLine call did. raw: the keyword of the line as
\* it was read from the socket. li, lg, coll, wait: state = "loggedIn",
\* state = "loggingIn", _collecting and waitID when it began; join: what
\* _handleInitChannel did in it;
\* eaten: _handleCollection returned True; hooks: hookEvents calls;
\* handled: an event_* handler was called; offered: calls of
\* triggers.apply for the line; kept: state, info, users, channels and
\* files are as before; appended: the line was added at the end of
\* _outputCollection; report: what errorFromEvent was given ("Error": an
\* exception left processLine before anything was reported); same: the
\* server object is as before.
NoCall == [line |-> NoLine, raw |-> "", li |-> FALSE, lg |-> FALSE,
           join |-> NoJoin, coll |-> 0, wait |-> 0,
           eaten |-> FALSE, hooks |-> 0, handled |-> FALSE, offered |-> 0,
           kept |-> TRUE, appended |-> FALSE, report |-> "", same |-> TRUE]

\* The return of sendWithWait(.., True): the lines handed back, and whether
\* the "end" of the block had been read.
NoResult == [returned |-> FALSE, lines |-> <<>>, ended |-> FALSE]

\* A line read by a watcher: the line, whether a block was open on its
\* connection, and whether it went to the callback (kept until the next
\* call of processLine).
NoRead == [line |-> NoLine, inblock |-> FALSE, delivered |-> FALSE]

\* hookEvents has not been called.
NoHook == [stage |-> "none"]

\* No codec has been applied.
NoCodec == [stage |-> "none"]

InitObs ==
  [ disc |-> [c \in Conns |-> 0],   \* _disconnected_ callbacks per connection
    sent |-> NoFrame,               \* the latest frame put on the wire (no pings)
    nsent |-> 0,                    \* frames put on the wire, modulo 2
    last |-> NoCall,                \* the latest processLine call
    ended |-> FALSE,                \* the "end" of the collected block was read
    result |-> NoResult,            \* what sendWithWait(.., True) handed back
    kicked |-> FALSE,               \* kicked handled since the last manual login
    login |-> "none",               \* what the user's latest login() returned
    hs |-> [c \in Conns |-> <<>>],  \* the first two lines the owner got, per connection
    rd |-> NoRead,                  \* the line a watcher read in the latest step
    open |-> [c \in Conns |-> {}],  \* ids of the blocks begun and not ended
    ids |-> <<>>,                   \* the latest two frames that carried an id
    tmo |-> 0,                      \* id of the latest sendWithWait that timed out
    late |-> FALSE,                 \* a marker of that id came during a later wait
    codec |-> NoCodec,              \* the value a codec was applied to, and what came out
    hook |-> NoHook,                \* the latest hookEvents call and what the triggers did
    lp |-> AttrDict,                \* the parameters of the latest login line
    njoin |-> 0,                    \* join lines sent since the latest login line
    eff |-> [c \in Conns |-> 0],    \* the usertimeout the server gave latest, per connection
    slept |-> [c \in Conns |-> 0],  \* the latest sleep of the pinger, in 1/100 s
    terminated |-> FALSE ]          \* terminate() has returned

Init ==
  /\ srv \in { InitServer(al) : al \in 0..2 }
  /\ conns = [c \in Conns |-> NewConn]
  /\ nconn = 0
  /\ thr = [t \in Threads |-> NewThread(IF t = User THEN "idle" ELSE "unused")]
  /\ ntimers = 0
  /\ nlines = 0
  /\ ncmds = 0
  /\ obs = InitObs

\* The thread's activity ends (return to the command loop, which catches
\* every Exception in onecmd, or the end of a worker thread).
Ended(t) == IF t = User THEN NewThread("idle") ELSE NewThread("dead")

EndObs(t, th, ob) ==
  IF t = User /\ th.cmd = "terminate" THEN [ob EXCEPT !.terminated = TRUE] ELSE ob

\* login() called by the command thread returns r ("True" or "False").
LoginReturns(t, ob, r) == IF t = User THEN [ob EXCEPT !.login = r] ELSE ob

\* --------------------------------------------------------------- ParmLine
\* Text is a sequence of characters. The characters of the values tried: a
\* letter, a digit, the space, the double quote, the backslash and the
\* single quote.
Chars == {"a", "9", " ", "\"", "\\", "'"}

Strs(n) == UNION { [1..k -> Chars] : k \in 0..n }

\* The value None of a parameter.
None == <<"None">>

Event == <<"e", "v">>
Key   == <<"k">>

RECURSIVE replace(_, _, _)
\* str.replace(old, new)
replace(s, old, new) ==
  IF Len(s) < Len(old) THEN s
  ELSE IF SubSeq(s, 1, Len(old)) = old
  THEN new \o replace(SubSeq(s, Len(old) + 1, Len(s)), old, new)
  ELSE <<Head(s)>> \o replace(Tail(s), old, new)

Digits == {"0", "1", "2", "3", "4", "5", "6", "7", "8", "9"}

\* str.isdigit() and no space
isdigit(s) == s # <<>> /\ \A i \in 1..Len(s) : s[i] \in Digits

\* ParmLine._fixParm(parm, quoteStrings=True)
fixParm(parm) ==
  IF parm = None THEN <<"\"", "\"">>
  ELSE IF isdigit(parm) THEN parm
  ELSE <<"\"">> \o replace(replace(parm, <<"\"">>, <<"\\", "\"">>),
                           <<"\\", "'">>, <<"'">>) \o <<"\"">>

RECURSIVE makeparms(_)
\* ParmLine.makeline, the loop over parms.items() (pairs <<name, value>>).
makeparms(parms) ==
  IF parms = <<>> THEN <<>>
  ELSE <<" ">> \o Head(parms)[1] \o <<"=">> \o fixParm(Head(parms)[2])
         \o makeparms(Tail(parms))

\* ParmLine.makeline(event, parms)
makeline(event, parms) == event \o makeparms(parms)

RECURSIVE shlexRead(_, _, _, _, _, _)
\* shlex.split(line) (posix, whitespace_split, no comments) on the characters
\* s. state: " " between tokens, "a" in a token, the quote character in a
\* quotation, the backslash after an escape character (esc: the state to go
\* back to); tok: the token so far; quoted: a quotation was read in it; out:
\* the tokens found. ok is FALSE for ValueError (no closing quotation, no
\* escaped character).
shlexRead(s, state, esc, tok, quoted, out) ==
  IF s = <<>>
  THEN IF state \in {"\"", "'", "\\"} THEN [ok |-> FALSE, parts |-> out]
       ELSE [ok |-> TRUE,
             parts |-> IF tok # <<>> \/ quoted THEN Append(out, tok) ELSE out]
  ELSE CASE state = " " ->
              IF Head(s) = " " THEN shlexRead(Tail(s), " ", esc, <<>>, FALSE, out)
              ELSE IF Head(s) = "\\"
              THEN shlexRead(Tail(s), "\\", "a", tok, quoted, out)
              ELSE IF Head(s) \in {"\"", "'"}
              THEN shlexRead(Tail(s), Head(s), esc, tok, quoted, out)
              ELSE shlexRead(Tail(s), "a", esc, <<Head(s)>>, quoted, out)
         [] state \in {"\"", "'"} ->
              IF Head(s) = state THEN shlexRead(Tail(s), "a", esc, tok, TRUE, out)
              ELSE IF Head(s) = "\\" /\ state = "\""
              THEN shlexRead(Tail(s), "\\", state, tok, TRUE, out)
              ELSE shlexRead(Tail(s), state, esc, Append(tok, Head(s)), TRUE, out)
         [] state = "\\" ->
              shlexRead(Tail(s), esc, esc,
                        IF esc \in {"\"", "'"} /\ Head(s) \notin {"\\", esc}
                        THEN tok \o <<"\\", Head(s)>> ELSE Append(tok, Head(s)),
                        quoted, out)
         [] OTHER ->
              IF Head(s) = " "
              THEN IF tok # <<>> \/ quoted
                   THEN shlexRead(Tail(s), " ", esc, <<>>, FALSE, Append(out, tok))
                   ELSE shlexRead(Tail(s), " ", esc, tok, quoted, out)
              ELSE IF Head(s) \in {"\"", "'"}
              THEN shlexRead(Tail(s), Head(s), esc, tok, quoted, out)
              ELSE IF Head(s) = "\\"
              THEN shlexRead(Tail(s), "\\", "a", tok, quoted, out)
              ELSE shlexRead(Tail(s), "a", esc, Append(tok, Head(s)), quoted, out)

\* Whether "=" is in the text.
hasEq(part) == \E i \in 1..Len(part) : part[i] = "="

\* part.split("=", 1): the place of the first "=".
eqAt(part) == CHOOSE i \in 1..Len(part) :
                part[i] = "=" /\ \A j \in 1..(i - 1) : part[j] # "="

\* parms[k] = v on the pairs of a dict: a name that is there keeps its place.
dictSet(d, k, v) ==
  IF \E i \in 1..Len(d) : d[i][1] = k
  THEN [i \in 1..Len(d) |-> IF d[i][1] = k THEN <<k, v>> ELSE d[i]]
  ELSE Append(d, <<k, v>>)

RECURSIVE splitparms(_, _)
\* ParmLine.splitline, the loop over the parts after the event. (The names
\* tried have no capital letters.)
splitparms(parts, parms) ==
  IF parts = <<>> THEN parms
  ELSE splitparms(Tail(parts),
                  IF hasEq(Head(parts))
                  THEN dictSet(parms, SubSeq(Head(parts), 1, eqAt(Head(parts)) - 1),
                               SubSeq(Head(parts), eqAt(Head(parts)) + 1,
                                      Len(Head(parts))))
                  ELSE dictSet(parms, Head(parts), None))

\* ParmLine.splitline given what shlex.split did, sp: the event and the
\* parameters, or ok = FALSE for ValueError (also "No event keyword").
splitparts(sp) ==
  IF ~sp.ok THEN [ok |-> FALSE, event |-> None, parms |-> <<>>]
  ELSE IF sp.parts = <<>> THEN [ok |-> TRUE, event |-> None, parms |-> <<>>]
  ELSE IF hasEq(Head(sp.parts)) THEN [ok |-> FALSE, event |-> None, parms |-> <<>>]
  ELSE [ok |-> TRUE, event |-> Head(sp.parts),
        parms |-> splitparms(Tail(sp.parts), <<>>)]

\* ParmLine.splitline(line). (The lines tried have no white space at their
\* ends for strip() to take.)
splitline(line) == splitparts(shlexRead(line, " ", "a", <<>>, FALSE, <<>>))

\* ParmLine.__init__ given what splitline did, sl: event, parms and line.
parmLineOf(sl) ==
  IF ~sl.ok THEN [ok |-> FALSE, event |-> None, parms |-> <<>>, line |-> <<>>]
  ELSE [ok |-> TRUE, event |-> sl.event, parms |-> sl.parms,
        line |-> makeline(sl.event, sl.parms)]

\* ParmLine(line)
ParmLine(line) == parmLineOf(splitline(line))

\* ParmLine(event, {Key: v})
ParmLineWith(event, v) ==
  [ok |-> TRUE, event |-> event, parms |-> <<<<Key, v>>>>,
   line |-> makeline(event, <<<<Key, v>>>>)]

\* ParmLine.__eq__
parmLineEq(p, q) == p.event = q.event /\ p.parms = q.parms /\ p.line = q.line

\* -------------------------------------------------------------- processLine
\* The letters of the lines tried.
Letters == { "a", "b", "c", "d", "e", "f", "g", "h", "i", "j", "k", "l", "m", "n", "o", "p", "q", "r", "s", "t", "u", "v", "w", "x", "y", "z",
             "A", "B", "C", "D", "E", "F", "G", "H", "I", "J", "K", "L", "M", "N", "O", "P", "Q", "R", "S", "T", "U", "V", "W", "X", "Y", "Z" }

\* str.isalpha()
isalpha(s) == s # <<>> /\ \A i \in 1..Len(s) : s[i] \in Letters

\* Lines that are given by their text, as a server that does not keep to the
\* protocol may send them; the line record carries the text's name. Every
\* other line of the model is a line of the protocol, given by the keyword
\* and the parameters that ParmLine finds in it.
Texts == {"user2", "quit()", "it's", "foo_bar", " "}

textOf(ev) ==
  CASE ev = "user2"   -> <<"u", "s", "e", "r", "2", " ", "a", "=", "9">>
    [] ev = "quit()"  -> <<"q", "u", "i", "t", "(", ")">>
    [] ev = "it's"    -> <<"i", "t", "'", "s", " ", "a", "=", "9">>
    [] ev = "foo_bar" -> <<"f", "o", "o", "_", "b", "a", "r">>
    [] ev = " "       -> <<" ">>

\* The keywords that TeamtalkServer has an event_ method for, among those
\* of the lines tried.
Handlers == {"_connected_", "_disconnected_", "begin", "end", "welcome", "ok",
             "error", "loggedin", "loggedout", "addchannel", "removechannel",
             "updatechannel", "adduser", "removeuser", "updateuser", "kicked",
             "stats", "useraccount", "userbanned", "pong", "serverupdate"}

\* processLine line 495, parmline = ParmLine(line), given what the
\* constructor did with the text: ValueError when the text cannot be split,
\* and AttributeError at line 511 when it has no keyword (event is None).
raisesOn(p) == ~p.ok \/ p.event = None

raises(L) == L.ev \in Texts /\ raisesOn(ParmLine(textOf(L.ev)))

\* processLine line 511: parmline.event.replace("_", "").isalpha()
eventIsAlpha(p) == isalpha(replace(p.event, <<"_">>, <<>>))

validEvent(L) == L.ev \notin Texts \/ eventIsAlpha(ParmLine(textOf(L.ev)))

\* processLine line 514: eval("self.event_" + parmline.event) finds a
\* method. (No text of Texts spells the keyword of a handler.)
hasHandler(L) == L.ev \in Handlers

\* processLine after _handleCollection returned hc (lines 497-504).
collected(hc, L) ==
  [s |-> hc.s, eaten |-> hc.eaten, marker |-> isOurBlockMarker(hc.s, L)]

\* TeamtalkServer.processLine up to the handler lookup (lines 495-517).
processLine(s, L) == collected(handleCollection(s, L), L)

\* processLine after the handler returned h (lines 518-526).
handled(pl, h) ==
  [s |-> h.s, eaten |-> FALSE, marker |-> pl.marker, raised |-> h.raised,
   sched |-> h.sched,
   report |-> IF h.raised THEN "Event dispatch failure" ELSE ""]

\* processLine lines 512-513 and 516-517: errorFromEvent(report) and return.
rejected(pl, report) ==
  [s |-> pl.s, eaten |-> FALSE, marker |-> pl.marker, raised |-> FALSE,
   sched |-> FALSE, report |-> report]

\* processLine when ParmLine(line), or the test of line 511, raises: the
\* exception leaves processLine before _handleCollection is called.
failed(s) ==
  [s |-> s, eaten |-> FALSE, marker |-> FALSE, raised |-> TRUE,
   sched |-> FALSE, report |-> "Error"]

\* processLine from the handler lookup on, pl being what came before.
processed(pl, L) ==
  IF pl.eaten
  THEN [s |-> pl.s, eaten |-> TRUE, marker |-> FALSE, raised |-> FALSE,
        sched |-> FALSE, report |-> ""]
  ELSE IF ~validEvent(L) THEN rejected(pl, "Invalid line")
  ELSE IF ~hasHandler(L) THEN rejected(pl, "Unrecognized line")
  ELSE handled(pl, eventFunc(pl.s, L))

\* TeamtalkServer.processLine as a whole (lines 495-526).
dispatch(s, L) ==
  IF raises(L) THEN failed(s) ELSE processed(processLine(s, L), L)

Model(s) == <<s.state, s.info, s.users, s.channels, s.files>>

\* MyTeamtalkServer.hookEvents(eventline, True), TTComCmd.py lines 92-96:
\* the calls of triggers.apply for an event with the keyword ev.
hookApplies(ev) == IF ev \in {"userbanned", "useraccount"} THEN 0 ELSE 1

\* The calls of hookEvents in processLine (lines 505-506 and 524-526).
hookCalls(d) ==
  IF d.eaten \/ d.marker \/ d.report = "Error" THEN 0
  ELSE IF d.report \in {"Invalid line", "Unrecognized line"} THEN 1
  ELSE 2

\* processLine line 519: the handler was called.
called(d) == ~d.eaten /\ d.report \in {"", "Event dispatch failure"}

\* What _handleInitChannel did in processLine(L), d, on s.
joined(s, L, d) ==
  IF L.ev = "ok" /\ called(d) /\ s.state = "loggingIn"
  THEN handleInitChannel(s, connUp(s)) ELSE NoJoin

\* The observations after the join line of j, if any, went out.
ObsJoin(ob, s, j) ==
  IF j.sent
  THEN [ob EXCEPT !.sent = Frame("join", 0) @@ [conn |-> s.conn],
                  !.nsent = 1 - @, !.njoin = IF @ < 2 THEN @ + 1 ELSE @]
  ELSE ob

\* The observations after processLine(L), d, on s.
ObsDispatch(ob, s, L, d) ==
  [ ObsJoin(ob, s, joined(s, L, d)) EXCEPT
      !.last = [line |-> L, raw |-> L.ev, li |-> s.state = "loggedIn",
                lg |-> s.state = "loggingIn", join |-> joined(s, L, d),
                coll |-> s.collecting, wait |-> s.waitID, eaten |-> d.eaten,
                hooks |-> hookCalls(d),
                handled |-> called(d),
                offered |-> IF hookCalls(d) = 2 THEN hookApplies(L.ev) ELSE 0,
                report |-> d.report, same |-> d.s = s,
                kept |-> Model(d.s) = Model(s),
                appended |-> d.s.outputCollection = Append(s.outputCollection, L)],
      !.ended = IF s.collecting = 2 /\ d.eaten /\ d.s.collecting = 0
                THEN TRUE ELSE @,
      !.kicked = IF L.ev = "kicked" /\ ~d.eaten /\ ~d.raised /\ s.autoLogin = 1
                 THEN TRUE ELSE @,
      !.rd = NoRead,
      !.late = IF /\ L.ev \in {"begin", "end"} /\ ob.tmo # 0 /\ L.arg = ob.tmo
                  /\ s.waitID # 0 /\ L.arg # s.waitID
               THEN TRUE ELSE @ ]

\* The observations after connection c handed the line L, read as a line
\* with the keyword raw, to the callback.
Got(ob, c, raw, L) ==
  [ob EXCEPT !.hs[c] = IF Len(@) < 2 THEN Append(@, L) ELSE @,
             !.last.raw = raw]

\* A line whose first word is "teamtalk" is kept as it is.
welcomeForKeep(L) == L

\* connect lines 211-212 and watcher lines 289-291: "teamtalk ..." becomes
\* "welcome ...".
welcomeFor(L) == IF L.ev = "teamtalk" THEN Ln("welcome", L.arg) ELSE L

\* A Timer started by _handleRecycling becomes the next background thread.
StartTimer(th, sched) ==
  IF sched THEN [th EXCEPT ![Bg(ntimers + 1)] = NewThread("timer")] ELSE th

\* TeamTalkServerConnection.terminate
connTerminate(cs, c) ==
  [cs EXCEPT ![c] = [@ EXCEPT !.shuttingDown = TRUE, !.callback = FALSE]]

Disconnected == Ln("_disconnected_", 0)

\* TeamTalkServerConnection.disconnect called by thread t (th0: its record)
\* on connection c, starting from the server object s and the observations
\* ob. Lines 243-245 hand "_disconnected_" to the callback, so processLine
\* runs on the calling thread; then sock.close() and self.play("died.wav")
\* (lines 246-248). The class defines no play (only TeamtalkServer does,
\* line 376), so this raises AttributeError and line 249 (callback = None)
\* is not reached. No caller catches AttributeError: a worker thread dies,
\* a command is abandoned. sock.close() only marks the socket object: the
\* file object of line 201 keeps the descriptor open, so reads and sends go
\* on working until the peer ends the connection.
\* When the callback is already gone disconnect returns at once, and the
\* caller (ctx) goes on: a worker thread ends; TeamtalkServer.disconnect
\* goes on with lines 400-401; the IOError of TeamtalkServer.send is
\* handled by login (lines 471-475) or sendWithWait (lines 640-644);
\* connect's except clause re-raises the IOError, which
\* TeamtalkServer.connect handles.
\* d: what processLine does with "_disconnected_".
ConnDisconnectCall(t, th0, c, ctx, s, ob, d) ==
  LET th == [th0 EXCEPT !.conn = c]
      cs == IF s.conn # 0 THEN connTerminate(conns, s.conn) ELSE conns
  IN
  /\ UNCHANGED <<nconn, nlines>>
  /\ IF conns[c].callback
     THEN /\ d.sched => ntimers < MaxTimers
          /\ srv' = d.s
          /\ ntimers' = IF d.sched THEN ntimers + 1 ELSE ntimers
          /\ conns' = [conns EXCEPT ![c].closed = TRUE]
          /\ thr' = StartTimer([thr EXCEPT ![t] = Ended(t)], d.sched)
          /\ obs' = [Got(ObsDispatch(ob, s, Disconnected, d), c, "_disconnected_",
                         Disconnected) EXCEPT !.disc[c] = @ + 1]
     ELSE /\ UNCHANGED ntimers
          /\ CASE ctx \in {"thread", "quit"} ->
                 /\ srv' = s /\ UNCHANGED conns
                 /\ thr' = [thr EXCEPT ![t] = Ended(t)]
                 /\ obs' = EndObs(t, th, ob)
            [] ctx \in {"sd", "send"} ->
                 /\ srv' = clear(s) /\ conns' = cs
                 /\ thr' = [thr EXCEPT ![t] = Ended(t)]
                 /\ obs' = EndObs(t, th, ob)
            [] ctx = "connect" ->
                 /\ srv' = [s EXCEPT !.state = "disconnected", !.conn = 0]
                 /\ UNCHANGED conns
                 /\ thr' = [thr EXCEPT ![t] = [th EXCEPT !.pc = "sc_loop"]]
                 /\ obs' = ob

ConnDisconnect(t, th0, c, ctx, s, ob) ==
  ConnDisconnectCall(t, th0, c, ctx, s, ob, dispatch(s, Disconnected))

\* ------------------------------------------------------------ sending
\* The record of the frames of sendWithWait (their id and connection),
\* after the frame of the given kind; login and quit go out through send().
WithId(ids, kind, f) ==
  IF kind \in {"login", "quit"} THEN ids
  ELSE IF Len(ids) < 2 THEN Append(ids, f) ELSE <<ids[2], f>>

\* TeamtalkServer.send -> TeamTalkServerConnection.send, by thread t, from
\* the server object s. th1: the thread's record when the send succeeds.
\* self.conn is None: AttributeError, which nothing catches. A socket that
\* is not connected (any more): IOError, so the connection's send calls
\* disconnect().
Send(t, th0, kind, id, ctx, s, ob, th1) ==
  IF s.conn = 0
  THEN /\ srv' = s
       /\ thr' = [thr EXCEPT ![t] = Ended(t)]
       /\ obs' = ob
       /\ UNCHANGED <<conns, nconn, ntimers, nlines>>
  ELSE IF conns[s.conn].net = "up"
  THEN /\ srv' = s
       /\ thr' = [thr EXCEPT ![t] = th1]
       /\ obs' = [ob EXCEPT !.sent = Frame(kind, id) @@ [conn |-> s.conn],
                            !.nsent = 1 - @,
                            !.ids = WithId(@, kind, [id |-> id, conn |-> s.conn])]
       /\ UNCHANGED <<conns, nconn, ntimers, nlines>>
  ELSE ConnDisconnect(t, th0, s.conn, ctx, s, ob)

\* ------------------------------------------------------ connect and login
\* TeamtalkServer.login lines 467-469: the parameters of the login line, a
\* copy of loginParms without the keys of the channel to join.
loginLine(lp) ==
  [k \in DOMAIN lp \ {"chanid", "channel", "chanpassword"} |-> lp[k]]

\* TeamtalkServer.login lines 460-475 when connect() returned True: the
\* ev_loggedIn test, state = "loggingIn" and the login frame.
LoginCheckBody(t, th0, s, ob) ==
  IF s.ev_loggedIn
  THEN /\ srv' = s
       /\ thr' = [thr EXCEPT ![t] = Ended(t)]
       /\ obs' = LoginReturns(t, ob, "True")
       /\ UNCHANGED <<conns, nconn, ntimers, nlines>>
  ELSE Send(t, th0, "login", 0, "send", [s EXCEPT !.state = "loggingIn"],
            [ob EXCEPT !.lp = loginLine(s.loginParms), !.njoin = 0],
            [th0 EXCEPT !.pc = "lg_wait"])

\* One turn of the loop of TeamtalkServer.connect (lines 415-425), up to
\* the blocking socket connect of TeamTalkServerConnection.connect.
ConnectLoop(t, th0, s, ob) ==
  IF s.conn # 0
  THEN IF conns[s.conn].shuttingDown
       THEN /\ srv' = s
            /\ thr' = [thr EXCEPT ![t] = Ended(t)]
            /\ obs' = LoginReturns(t, ob, "False")
            /\ UNCHANGED <<conns, nconn, ntimers, nlines>>
       ELSE LoginCheckBody(t, th0, s, ob)
  ELSE /\ nconn < MaxConns
       /\ nconn' = nconn + 1
       /\ srv' = [s EXCEPT !.conn = nconn + 1, !.state = "connecting"]
       /\ thr' = [thr EXCEPT ![t] = [th0 EXCEPT !.pc = "cc_sock",
                                                !.conn = nconn + 1]]
       /\ obs' = ob
       /\ UNCHANGED <<conns, ntimers, nlines>>

\* The retry of TeamtalkServer.connect after the 10 s sleep (lines 430-432).
SessionConnect(t) ==
  /\ thr[t].pc = "sc_loop"
  /\ ConnectLoop(t, thr[t], srv, obs)
  /\ UNCHANGED ncmds

\* TeamTalkServerConnection.connect line 196 raises socket.error; the
\* except clause of TeamtalkServer.connect (lines 427-433), retry = True.
ConnectRefused(t) ==
  /\ thr[t].pc = "cc_sock"
  /\ conns' = [conns EXCEPT ![thr[t].conn].net = "down"]
  /\ srv' = [srv EXCEPT !.state = "disconnected", !.conn = 0]
  /\ thr' = [thr EXCEPT ![t].pc = "sc_loop"]
  /\ UNCHANGED <<nconn, ntimers, nlines, ncmds, obs>>

\* The usertimeout of the welcome lines tried, in seconds.
WelcomeTimeout == 60

\* connect line 221: int(welcomeLine.parms.usertimeout)
usertimeoutOf(wl) == WelcomeTimeout

\* TeamTalkServerConnection.connect lines 196-225: the socket connects and
\* "_connected_" goes to the callback; the first line L is read and handed
\* to the callback before it is checked; a welcome line starts the watcher
\* and the pinger; anything else raises IOError, and the except clause
\* calls disconnect() (lines 229-233). The object is new, so its callback
\* is set. A socket that another thread closed before it connected (no file
\* object holds the descriptor yet) cannot connect.
ConnectOpen(t, L) ==
  LET c  == thr[t].conn
      C  == Ln("_connected_", 0)
      d0 == dispatch(srv, C)
      wl == welcomeFor(L)
      d  == dispatch(d0.s, wl)
      ob == Got(ObsDispatch(Got(ObsDispatch(obs, srv, C, d0), c, C.ev, C),
                            d0.s, wl, d), c, L.ev, wl)
      up == [conns EXCEPT ![c].net = "up"]
  IN
  /\ thr[t].pc = "cc_sock"
  /\ ~conns[c].closed
  /\ UNCHANGED ncmds
  /\ IF wl.ev = "welcome" /\ ~d.raised
     THEN /\ srv' = d.s
          /\ obs' = [ob EXCEPT !.eff[c] = usertimeoutOf(wl)]
          /\ conns' = [up EXCEPT ![c].usertimeout = usertimeoutOf(wl)]
          /\ thr' = [thr EXCEPT ![t].pc = "sc_connected",
                                ![W(c)] = [NewThread("w_read") EXCEPT !.conn = c],
                                ![P(c)] = [NewThread("p_loop") EXCEPT !.conn = c]]
          /\ UNCHANGED <<nconn, ntimers, nlines>>
     ELSE LET dd == dispatch(d.s, Disconnected)
          IN  /\ dd.sched => ntimers < MaxTimers
              /\ srv' = dd.s
              /\ ntimers' = IF dd.sched THEN ntimers + 1 ELSE ntimers
              /\ conns' = [up EXCEPT ![c].closed = TRUE]
              /\ thr' = StartTimer([thr EXCEPT ![t] = Ended(t)], dd.sched)
              /\ obs' = [ObsDispatch(ob, d.s, Disconnected, dd)
                           EXCEPT !.disc[c] = @ + 1]
              /\ UNCHANGED <<nconn, nlines>>

\* TeamtalkServer.connect lines 434-435: state = "connected"; return True.
SessionConnected(t) ==
  /\ thr[t].pc = "sc_connected"
  /\ srv' = [srv EXCEPT !.state = "connected"]
  /\ thr' = [thr EXCEPT ![t].pc = "lg_check"]
  /\ UNCHANGED <<conns, nconn, ntimers, nlines, ncmds, obs>>

\* TeamtalkServer.login lines 460-475 after connect() made the connection.
LoginCheck(t) ==
  /\ thr[t].pc = "lg_check"
  /\ LoginCheckBody(t, thr[t], srv, obs)
  /\ UNCHANGED ncmds

\* TeamtalkServer.login line 477: waitOn(ev_loggedIn, 10) returned True.
LoginWaitDone(t) ==
  /\ thr[t].pc = "lg_wait"
  /\ srv.ev_loggedIn
  /\ thr' = [thr EXCEPT ![t].pc = "lg_after"]
  /\ UNCHANGED <<srv, conns, nconn, ntimers, nlines, ncmds, obs>>

\* TeamtalkServer.login lines 480-486: "return True" on both paths.
LoginAfter(t) ==
  /\ thr[t].pc = "lg_after"
  /\ srv' = IF srv.state = "loginError"
            THEN [srv EXCEPT !.ev_loggedIn = FALSE, !.state = "connected"]
            ELSE [srv EXCEPT !.state = "loggedIn"]
  /\ thr' = [thr EXCEPT ![t] = Ended(t)]
  /\ obs' = LoginReturns(t, obs, "True")
  /\ UNCHANGED <<conns, nconn, ntimers, nlines, ncmds>>

\* TeamtalkServer.login lines 477-479: the wait timed out; return False.
LoginTimeout(t) ==
  /\ thr[t].pc = "lg_wait"
  /\ ~srv.ev_loggedIn
  /\ thr' = [thr EXCEPT ![t] = Ended(t)]
  /\ obs' = LoginReturns(t, obs, "False")
  /\ UNCHANGED <<srv, conns, nconn, ntimers, nlines, ncmds>>

\* ----------------------------------------------------- connection threads
\* watcher, lines 296-300: self.curid after the line L ("begin id=..." and
\* "end id=..." are the lines that start with these words).
curidAfter(cn, L) ==
  IF L.ev = "begin" /\ L.arg # 0 THEN L.arg
  ELSE IF L.ev = "end" /\ L.arg # 0 THEN 0
  ELSE cn.curid

\* A watcher that eats every pong.
dropsEvery(cn, L) == L.ev = "pong"

\* watcher, lines 301-303: the pong that is not passed on.
drops(cn, L) == cn.curid = 0 /\ L.ev = "pong"

\* The observations after the watcher of connection c read L.
ObsRead(ob, c, L, delivered) ==
  [ ob EXCEPT
      !.rd = [line |-> L, inblock |-> ob.open[c] # {}, delivered |-> delivered],
      !.open[c] = IF L.ev = "begin" /\ L.arg # 0 THEN @ \cup {L.arg}
                  ELSE IF L.ev = "end" /\ L.arg # 0 THEN @ \ {L.arg}
                  ELSE @,
      !.eff[c] = IF L.ev = "serverupdate" /\ L.arg # 0 THEN L.arg ELSE @ ]

\* TeamTalkServerConnection.watcher, one turn of its loop: a line is read
\* and goes to the callback (processLine runs on the watcher thread). An
\* exception of the handler is re-raised by processLine and ends the thread
\* (the watcher catches IOError only).
\* wl: the line as it is passed on; d: what processLine does with it.
WatcherPass(t, c, L, wl, d, max) ==
  /\ thr[t].pc = "w_read"
  /\ conns[c].net = "up"
  /\ nlines < max
  /\ nlines' = nlines + 1
  /\ UNCHANGED <<nconn, ncmds>>
  /\ IF conns[c].shuttingDown
     THEN /\ thr' = [thr EXCEPT ![t] = Ended(t)]
          /\ UNCHANGED <<srv, conns, ntimers, obs>>
     ELSE /\ conns' = [conns EXCEPT ![c].curid = curidAfter(conns[c], wl)]
          /\ IF drops(conns[c], wl) \/ ~conns[c].callback
             THEN /\ obs' = ObsRead(obs, c, wl, FALSE)
                  /\ UNCHANGED <<srv, thr, ntimers>>
             ELSE /\ d.sched => ntimers < MaxTimers
                  /\ srv' = d.s
                  /\ ntimers' = IF d.sched THEN ntimers + 1 ELSE ntimers
                  /\ thr' = StartTimer([thr EXCEPT ![t] = IF d.raised THEN Ended(t)
                                                          ELSE @], d.sched)
                  /\ obs' = ObsRead(Got(ObsDispatch(obs, srv, wl, d), c, L.ev, wl),
                                     c, wl, TRUE)

WatcherRead(c, L, max) ==
  WatcherPass(W(c), c, L, welcomeFor(L), dispatch(srv, welcomeFor(L)), max)

WatcherLine(c, L) == WatcherRead(c, L, MaxLines)

\* TeamTalkServerConnection.watcher: end of stream or IOError on the read
\* (lines 306-311).
WatcherEOF(c) ==
  /\ thr[W(c)].pc = "w_read"
  /\ conns[c].net = "down"
  /\ ConnDisconnect(W(c), thr[W(c)], c, "thread", srv, obs)
  /\ UNCHANGED ncmds

\* TeamTalkServerConnection.pinger: the ping cannot be sent (lines 256-259).
\* A ping that is sent changes nothing.
Pinger(c) ==
  /\ thr[P(c)].pc = "p_loop"
  /\ conns[c].net = "down"
  /\ ConnDisconnect(P(c), thr[P(c)], c, "thread", srv, obs)
  /\ UNCHANGED ncmds

\* pinger lines 260-265: the sleep after a ping, in 1/100 s.
pingtime(usertimeout) ==
  IF usertimeout < 1 THEN 30
  ELSE IF 2 * usertimeout < 3 THEN 50
  ELSE 75 * usertimeout

\* TeamTalkServerConnection.pinger, one turn of its loop in which the ping
\* is sent: the pinger sleeps (lines 256-266).
PingerSleep(c) ==
  /\ thr[P(c)].pc = "p_loop"
  /\ conns[c].net = "up"
  /\ ~conns[c].shuttingDown
  /\ obs' = [obs EXCEPT !.slept[c] = pingtime(conns[c].usertimeout)]
  /\ UNCHANGED <<srv, conns, nconn, thr, ntimers, nlines, ncmds>>

\* The environment: the server or the network ends an established
\* connection.
ServerClose(c) ==
  /\ conns[c].net = "up"
  /\ thr[W(c)].pc # "unused"
  /\ conns' = [conns EXCEPT ![c].net = "down"]
  /\ UNCHANGED <<srv, nconn, thr, ntimers, nlines, ncmds, obs>>

\* The Timer of _handleRecycling fires: login(True) (lines 454-459) sets
\* manualCM and starts a thread that runs login(), which sets manualCM again
\* and calls connect(True).
TimerFire(i) ==
  /\ thr[Bg(i)].pc = "timer"
  /\ ConnectLoop(Bg(i), thr[Bg(i)], [srv EXCEPT !.manualCM = FALSE], obs)
  /\ UNCHANGED ncmds

\* ------------------------------------------------------------ sendWithWait
\* An id counter that wraps to 0.
nextIDFromZero(s) == (s.curID + 1) % (maxID + 1)

\* TeamtalkServer.sendWithWait lines 630-632
nextID(s) == IF s.curID + 1 > maxID THEN 1 ELSE s.curID + 1

\* TeamtalkServer.sendWithWait lines 630-644, by thread t from the server
\* object s: the id, the correlator, and the frame.
SendWithWaitStart(t, th0, kind, rr, s, ob) ==
  LET id == nextID(s)
      s1 == [s EXCEPT !.curID = id, !.ev_idblockDone = FALSE]
      s2 == IF rr THEN startCollecting(s1, id) ELSE [s1 EXCEPT !.waitID = id]
      th == [th0 EXCEPT !.rr = rr, !.id = id]
  IN  Send(t, th, kind, id, "send", s2, ob, [th EXCEPT !.pc = "sw_wait"])

\* The end of sendWithWait (lines 648-649) and what its caller does next:
\* logout() goes on to wait for ev_loggedOut; the watcher that ran a trigger
\* action goes back to its loop; a command returns.
AfterWait(t, s, ob) ==
  LET th == thr[t]
      s1 == IF th.rr THEN stopCollecting(s) ELSE s
  IN
  /\ srv' = s1
  /\ thr' = [thr EXCEPT ![t] = IF th.cmd = "logout"
                                THEN [th EXCEPT !.pc = "lo_wait"]
                                ELSE IF th.cmd = "trigger"
                                THEN [NewThread("w_read") EXCEPT !.conn = th.conn]
                                ELSE Ended(t)]
  /\ obs' = IF th.rr
            THEN [ob EXCEPT !.result = [returned |-> TRUE,
                                        lines |-> s.outputCollection,
                                        ended |-> ob.ended]]
            ELSE ob
  /\ UNCHANGED <<conns, nconn, ntimers, nlines, ncmds>>

\* waitOn(ev_idblockDone, 8) returned True.
SendWaitDone(t) ==
  /\ thr[t].pc = "sw_wait"
  /\ srv.ev_idblockDone
  /\ AfterWait(t, srv, obs)

\* AfterWait(t, s, ob): ob are the observations before the return.
TimedOut(t, ob) == [ob EXCEPT !.tmo = thr[t].id, !.late = FALSE]

\* A sendWithWait that leaves waitID as it is when the wait times out.
SendWaitTimeoutKeep(t) ==
  /\ thr[t].pc = "sw_wait"
  /\ ~srv.ev_idblockDone
  /\ AfterWait(t, srv, TimedOut(t, obs))

\* waitOn(ev_idblockDone, 8) timed out (lines 645-647).
SendWaitTimeout(t) ==
  /\ thr[t].pc = "sw_wait"
  /\ ~srv.ev_idblockDone
  /\ AfterWait(t, [srv EXCEPT !.waitID = 0], TimedOut(t, obs))

\* ---------------------------------------------------------- user commands
\* The command loop runs one command at a time; a session object that was
\* terminated is no longer reachable from it.
\* (A command reaches the session through self.servers.)
CanCommand ==
  thr[User].pc = "idle" /\ ncmds < MaxCmds /\ ~obs.terminated /\ srv.registered

Cmd(name) == [NewThread("idle") EXCEPT !.cmd = name]

\* do_login -> TeamtalkServer.login()
UserLogin ==
  /\ CanCommand
  /\ ncmds' = ncmds + 1
  /\ ConnectLoop(User, Cmd("login"), [srv EXCEPT !.manualCM = FALSE],
                 [obs EXCEPT !.kicked = FALSE, !.login = "none"])

\* do_logout -> TeamtalkServer.logout() up to the wait of sendWithWait
UserLogout ==
  /\ CanCommand
  /\ ncmds' = ncmds + 1
  /\ IF ~srv.ev_loggedIn
     THEN UNCHANGED <<srv, conns, nconn, thr, ntimers, nlines, obs>>
     ELSE SendWithWaitStart(User, Cmd("logout"), "logout", FALSE,
                            [srv EXCEPT !.ev_loggedOut = FALSE], obs)

\* TeamtalkServer.logout lines 1489-1496: ev_loggedOut.wait(10) ends, by
\* the event or by the timeout; either way the command returns.
LogoutWait ==
  /\ thr[User].pc = "lo_wait"
  /\ thr' = [thr EXCEPT ![User] = Ended(User)]
  /\ UNCHANGED <<srv, conns, nconn, ntimers, nlines, ncmds, obs>>

\* A command that calls sendWithWait: with returnResults (the account and
\* ban lists) or without.
UserSendWithWait(rr) ==
  /\ CanCommand
  /\ ncmds' = ncmds + 1
  /\ SendWithWaitStart(User, Cmd("list"), "list", rr, srv,
                       [obs EXCEPT !.result = NoResult, !.ended = FALSE])

\* A request (TTComCmd.request, do_send) in a run of MaxRequests commands.
UserRequest(rr) ==
  /\ thr[User].pc = "idle" /\ ~obs.terminated
  /\ ncmds < MaxRequests
  /\ ncmds' = ncmds + 1
  /\ SendWithWaitStart(User, Cmd("list"), "list", rr, srv,
                       [obs EXCEPT !.result = NoResult, !.ended = FALSE])

\* TeamtalkServer.disconnect by thread t (lines 398-401)
SessionDisconnect(t, th0, s, ob) ==
  IF s.conn # 0
  THEN ConnDisconnect(t, th0, s.conn, "sd", s, ob)
  ELSE /\ srv' = clear(s)
       /\ thr' = [thr EXCEPT ![t] = Ended(t)]
       /\ obs' = EndObs(t, th0, ob)
       /\ UNCHANGED <<conns, nconn, ntimers, nlines>>

\* do_disconnect, lines 698-699: send("quit") and the sleep.
UserDisconnect ==
  /\ CanCommand
  /\ ncmds' = ncmds + 1
  /\ Send(User, Cmd("disconnect"), "quit", 0, "quit", srv, obs,
          [Cmd("disconnect") EXCEPT !.pc = "dd_check"])

\* do_disconnect, lines 700-701
UserDisconnectCheck ==
  /\ thr[User].pc = "dd_check"
  /\ UNCHANGED ncmds
  /\ IF srv.state # "disconnected"
     THEN SessionDisconnect(User, thr[User], srv, obs)
     ELSE /\ thr' = [thr EXCEPT ![User] = Ended(User)]
          /\ UNCHANGED <<srv, conns, nconn, ntimers, nlines, obs>>

\* TeamtalkServer.terminate
\* do_refresh without arguments: readServers (TTComCmd.py lines 201-343)
\* for a session that is in self.servers (srv.registered). configured: the
\* configuration read still has a section of its shortname, with the
\* values it had. A session that is not configured any more is taken out
\* of self.servers by "del self.servers[oldserver]" (line 209); for one
\* that is, the new values equal the old ones and nothing is done.
UserRefresh(configured) ==
  /\ CanCommand
  /\ ncmds' = ncmds + 1
  /\ srv' = IF configured THEN srv ELSE [srv EXCEPT !.registered = FALSE]
  /\ UNCHANGED <<conns, nconn, thr, ntimers, nlines, obs>>

UserTerminate ==
  /\ CanCommand
  /\ ncmds' = ncmds + 1
  /\ SessionDisconnect(User, Cmd("terminate"), [srv EXCEPT !.autoLogin = 0], obs)

LoginThreads == {User} \cup { Bg(i) : i \in BgIds }

\* The threads every run has: login with its connection, the watcher and
\* the pinger, and the server ending the connection.
Machinery ==
  \/ (\E t \in LoginThreads : SessionConnect(t))
  \/ (\E t \in LoginThreads : ConnectRefused(t))
  \/ (\E t \in LoginThreads : \E L \in FirstLines : ConnectOpen(t, L))
  \/ (\E t \in LoginThreads : SessionConnected(t))
  \/ (\E t \in LoginThreads : LoginCheck(t))
  \/ (\E t \in LoginThreads : LoginWaitDone(t))
  \/ (\E t \in LoginThreads : LoginAfter(t))
  \/ (\E t \in LoginThreads : LoginTimeout(t))
  \/ (\E c \in Conns : WatcherEOF(c))
  \/ (\E c \in Conns : Pinger(c))
  \/ (\E c \in Conns : ServerClose(c))

\* Login and logout, on a session that logs in by itself or does not.
InitSession == Init /\ srv.autoLogin \in {0, 1}

NextSession ==
  \/ UserLogin
  \/ UserLogout
  \/ LogoutWait
  \/ SendWaitDone(User)
  \/ SendWaitTimeout(User)
  \/ (\E i \in BgIds : TimerFire(i))
  \/ (\E c \in Conns : \E L \in SessionLines : WatcherLine(c, L))
  \/ Machinery

SpecSession == InitSession /\ [][NextSession]_vars

\* Login, disconnect and terminate.
NextDisconnect ==
  \/ UserLogin
  \/ UserDisconnect
  \/ UserDisconnectCheck
  \/ UserTerminate
  \/ (\E i \in BgIds : TimerFire(i))
  \/ (\E c \in Conns : \E L \in DisconnectLines : WatcherLine(c, L))
  \/ Machinery

SpecDisconnect == Init /\ [][NextDisconnect]_vars

\* Login and reloads of the configuration.
NextReload ==
  \/ UserLogin
  \/ (\E configured \in BOOLEAN : UserRefresh(configured))
  \/ (\E i \in BgIds : TimerFire(i))
  \/ (\E c \in Conns : \E L \in DisconnectLines : WatcherLine(c, L))
  \/ Machinery

SpecReload == Init /\ [][NextReload]_vars

\* A session that logs in by itself and is kicked or logged out by the
\* server.
InitKick == Init /\ srv.autoLogin \in {1, 2}

NextKick ==
  \/ UserLogin
  \/ (\E i \in BgIds : TimerFire(i))
  \/ (\E c \in Conns : \E L \in KickLines : WatcherLine(c, L))
  \/ Machinery

SpecKick == InitKick /\ [][NextKick]_vars

\* Commands sent with an id, with and without collection of the response,
\* on a session that does not log in by itself.
InitCollect == Init /\ srv.autoLogin = 0

NextCollect ==
  \/ UserLogin
  \/ (\E rr \in BOOLEAN : UserSendWithWait(rr))
  \/ SendWaitDone(User)
  \/ SendWaitTimeout(User)
  \/ (\E c \in Conns : \E L \in CollectLines : WatcherLine(c, L))
  \/ Machinery

SpecCollect == InitCollect /\ [][NextCollect]_vars

\* A line that a trigger of the session matches, the action of the trigger
\* being "sendwithwait <frame>".
TriggerLine == Ln("loggedin", OtherUid)

\* The watcher of connection c hands TriggerLine to processLine (lines
\* 278-304): after the handler, hookEvents(parmline, True) applies the
\* triggers (TTComCmd.py line 96) and Trigger._doAction calls
\* server.sendWithWait (triggers.py lines 219-225), all in the watcher
\* thread. d: what processLine did before the trigger. (The line comes from
\* the connection of the session, so the frame goes out. The run has MaxTriggers such actions.)
WatcherTriggerPass(c, L, d) ==
  /\ thr[W(c)].pc = "w_read"
  /\ conns[c].net = "up" /\ conns[c].callback /\ ~conns[c].shuttingDown
  /\ srv.conn = c
  /\ Len(obs.ids) < MaxTriggers
  /\ hookCalls(d) = 2 /\ ~d.raised /\ ~d.sched
  /\ UNCHANGED ncmds
  /\ SendWithWaitStart(W(c), [thr[W(c)] EXCEPT !.cmd = "trigger"], "trigger",
                       FALSE, d.s,
                       ObsRead(Got(ObsDispatch(obs, srv, L, d), c, L.ev, L),
                               c, L, TRUE))

WatcherTrigger(c) == WatcherTriggerPass(c, TriggerLine, dispatch(srv, TriggerLine))

\* The lines of the responses to the frames of trigger actions.
TriggerLines == { Ln("ok", 0), Ln("begin", 1), Ln("end", 1), Ln("end", 2) }

\* Trigger actions that send with an id, on a session that does not log in
\* by itself. (The wait of such an action ends by its timeout or not at
\* all: ev_idblockDone is set by processLine only, which the waiting
\* watcher does not run, and a connect that replaces the connection
\* clears waitID.)
NextTriggerWait ==
  \/ UserLogin
  \/ (\E c \in Conns : WatcherTrigger(c))
  \/ (\E c \in Conns : SendWaitTimeout(W(c)))
  \/ (\E c \in Conns : \E L \in TriggerLines : WatcherLine(c, L))
  \/ Machinery

SpecTriggerWait == InitCollect /\ [][NextTriggerWait]_vars

\* Requests, collected or not, and the lines of listings.
NextHooks ==
  \/ UserLogin
  \/ (\E rr \in BOOLEAN : UserSendWithWait(rr))
  \/ SendWaitDone(User)
  \/ SendWaitTimeout(User)
  \/ (\E c \in Conns : \E L \in HookLines : WatcherLine(c, L))
  \/ Machinery

SpecHooks == InitCollect /\ [][NextHooks]_vars

\* Lines of the protocol and lines that are not.
RogueLines == { Ln("ok", 0), Ln("begin", 1), Ln("end", 1) }
                 \cup { Ln(ev, 0) : ev \in Texts }

NextRogue ==
  \/ UserLogin
  \/ (\E rr \in BOOLEAN : UserSendWithWait(rr))
  \/ SendWaitDone(User)
  \/ SendWaitTimeout(User)
  \/ (\E c \in Conns : \E L \in RogueLines : WatcherLine(c, L))
  \/ Machinery

SpecRogue == InitCollect /\ [][NextRogue]_vars

\* The loginParms of a server section: the account, and with it a chanid,
\* a channel path ("/", "/a/") and a chanpassword, or some of them.
Account == [username |-> "u"]

LoginParms ==
  { Account,
    [chanpassword |-> "pw"] @@ Account,
    [chanid |-> SubSubId] @@ Account,
    [chanid |-> SubSubId, chanpassword |-> "pw"] @@ Account,
    [channel |-> <<>>] @@ Account,
    [channel |-> <<"a">>] @@ Account,
    [channel |-> <<"a">>, chanpassword |-> "pw"] @@ Account,
    [chanid |-> SubSubId, channel |-> <<"a">>] @@ Account }

\* The channels as the server lists them during the login, two of them
\* with the same path, and the end of the login.
JoinLines ==
  { Ln("ok", 0),
    LnP("addchannel", ChanId, [parentid |-> 0, name |-> ""]),
    LnP("addchannel", SubId, [parentid |-> ChanId, name |-> "a"]),
    LnP("addchannel", SubSubId, [parentid |-> ChanId, name |-> "a"]) }

InitJoin ==
  /\ srv \in { [InitServer(0) EXCEPT !.loginParms = lp] : lp \in LoginParms }
  /\ conns = [c \in Conns |-> NewConn]
  /\ nconn = 0
  /\ thr = [t \in Threads |-> NewThread(IF t = User THEN "idle" ELSE "unused")]
  /\ ntimers = 0
  /\ nlines = 0
  /\ ncmds = 0
  /\ obs = InitObs

NextJoin ==
  \/ UserLogin
  \/ (\E c \in Conns : \E L \in JoinLines : WatcherRead(c, L, MaxReplies))
  \/ Machinery

SpecJoin == InitJoin /\ [][NextJoin]_vars

\* The server changes its usertimeout while the session is connected.
PingLines == { Ln("ok", 0), Ln("serverupdate", 10), Ln("serverupdate", 1),
               Ln("serverupdate", WelcomeTimeout) }

NextPing ==
  \/ UserLogin
  \/ (\E c \in Conns : \E L \in PingLines : WatcherLine(c, L))
  \/ (\E c \in Conns : PingerSleep(c))
  \/ Machinery

SpecPing == InitCollect /\ [][NextPing]_vars

\* Requests of which some time out and are answered late.
NextTimeout ==
  \/ UserLogin
  \/ (\E rr \in BOOLEAN : UserRequest(rr))
  \/ SendWaitDone(User)
  \/ SendWaitTimeout(User)
  \/ (\E c \in Conns : \E L \in TimeoutLines : WatcherRead(c, L, MaxReplies))
  \/ Machinery

SpecTimeout == InitCollect /\ [][NextTimeout]_vars

\* Requests on a session that reconnects by itself, starting where the id
\* counter is new and where it is about to wrap (sendWithWait on a session
\* that has no connection counts the id up and fails).
IdStarts == {0, maxID - 1}

InitId ==
  /\ srv \in { [InitServer(1) EXCEPT !.curID = k] : k \in IdStarts }
  /\ conns = [c \in Conns |-> NewConn]
  /\ nconn = 0
  /\ thr = [t \in Threads |-> NewThread(IF t = User THEN "idle" ELSE "unused")]
  /\ ntimers = 0
  /\ nlines = 0
  /\ ncmds = 0
  /\ obs = InitObs

NextId ==
  \/ UserLogin
  \/ UserRequest(TRUE)
  \/ SendWaitDone(User)
  \/ SendWaitTimeout(User)
  \/ (\E i \in BgIds : TimerFire(i))
  \/ (\E c \in Conns : \E L \in IdLines : WatcherLine(c, L))
  \/ Machinery

SpecId == InitId /\ [][NextId]_vars

\* Requests, and pings of the user (a request whose response holds a pong).
NextUsers ==
  \/ UserLogin
  \/ (\E c \in Conns : \E L \in UserLines : WatcherLine(c, L))
  \/ Machinery

\* The data model under the events of users and channels.
SpecUsers == InitCollect /\ [][NextUsers]_vars

NextChannels ==
  \/ UserLogin
  \/ (\E c \in Conns : \E L \in ChannelLines : WatcherRead(c, L, MaxReplies))
  \/ Machinery

\* The channel records under addchannel and updatechannel.
SpecChannels == InitCollect /\ [][NextChannels]_vars

NextPong ==
  \/ UserLogin
  \/ (\E rr \in BOOLEAN : UserRequest(rr))
  \/ SendWaitDone(User)
  \/ SendWaitTimeout(User)
  \/ (\E c \in Conns : \E L \in PongLines : WatcherRead(c, L, MaxReplies))
  \/ Machinery

SpecPong == InitCollect /\ [][NextPong]_vars

\* ------------------------------------------------- ParmLine round trip
\* A value is chosen; p = ParmLine(Event, {Key: value}) is made; q =
\* ParmLine(p.line) is made from its text.
InitParmLine ==
  /\ srv = InitServer(0)
  /\ conns = [c \in Conns |-> NewConn]
  /\ nconn = 0
  /\ thr = [t \in Threads |-> NewThread(IF t = User THEN "idle" ELSE "unused")]
  /\ ntimers = 0
  /\ nlines = 0
  /\ ncmds = 0
  /\ obs \in { [InitObs EXCEPT !.codec = [stage |-> "value", value |-> v]] :
                 v \in Strs(MaxLen) }

Emit ==
  /\ obs.codec.stage = "value"
  /\ obs' = [obs EXCEPT !.codec = [stage |-> "made", value |-> @.value,
                                    p |-> ParmLineWith(Event, @.value)]]
  /\ UNCHANGED <<srv, conns, nconn, thr, ntimers, nlines, ncmds>>

Parse ==
  /\ obs.codec.stage = "made"
  /\ obs' = [obs EXCEPT !.codec = [stage |-> "parsed", value |-> @.value,
                                    p |-> @.p, q |-> ParmLine(@.p.line)]]
  /\ UNCHANGED <<srv, conns, nconn, thr, ntimers, nlines, ncmds>>

NextParmLine == Emit \/ Parse

SpecParmLine == InitParmLine /\ [][NextParmLine]_vars

\* ------------------------------------------------- StringParm and Parser
\* The characters of the raw strings tried: letters, the backslash, the
\* real LF and CR, and the double quote.
RawChars == {"a", "n", "\\", "\n", "\r", "\""}

RawStrs(n) == UNION { [1..k -> RawChars] : k \in 0..n }

\* StringParm(kw, val, rawValue=True): value is the raw string, txt what
\* str() gives.
StringParmRaw(kw, val) ==
  [ok |-> TRUE, name |-> kw, value |-> val,
   txt |-> kw \o <<"=", "\"">>
           \o replace(replace(replace(val, <<"\\">>, <<"\\", "\\">>),
                               <<"\n">>, <<"\\", "n">>),
                       <<"\r">>, <<"\\", "r">>)
           \o <<"\"">>]

\* StringParm(kw, val): val is the encoded string.
StringParm(kw, val) ==
  [ok |-> TRUE, name |-> kw,
   value |-> replace(replace(replace(val, <<"\\", "\\">>, <<"\\">>),
                             <<"\\", "r">>, <<"\r">>),
                     <<"\\", "n">>, <<"\n">>),
   txt |-> kw \o <<"=", "\"">> \o val \o <<"\"">>]

RECURSIVE nextStringLoop(_, _, _)
\* Parser._nextString, the loop: val and the line left; ok is FALSE for the
\* IndexError of a backslash at the end.
nextStringLoop(line, quoting, val) ==
  IF line = <<>> THEN [ok |-> TRUE, val |-> val, line |-> line]
  ELSE IF Head(line) = "\\"
  THEN IF Len(line) < 2 THEN [ok |-> FALSE, val |-> val, line |-> <<>>]
       ELSE nextStringLoop(SubSeq(line, 3, Len(line)), quoting,
                           val \o <<"\\", line[2]>>)
  ELSE IF quoting
  THEN IF Head(line) = "\"" THEN [ok |-> TRUE, val |-> val, line |-> Tail(line)]
       ELSE nextStringLoop(Tail(line), quoting, Append(val, Head(line)))
  ELSE IF Head(line) \in {" ", "\t", "\r", "\n"}
  THEN [ok |-> TRUE, val |-> val, line |-> line]
  ELSE nextStringLoop(Tail(line), quoting, Append(val, Head(line)))

\* Parser._nextString(line), for a line that is not empty
nextString(line) ==
  IF Head(line) = "\"" THEN nextStringLoop(Tail(line), TRUE, <<>>)
  ELSE nextStringLoop(line, FALSE, <<>>)

\* The string parameter made of what _nextString found, ns.
stringFound(kw, ns) ==
  IF ns.ok THEN StringParm(kw, ns.val) @@ [rest |-> ns.line]
  ELSE [ok |-> FALSE, name |-> kw, value |-> <<>>, txt |-> <<>>, rest |-> <<>>]

\* Parser.next() on a line that begins with the keyword kw and "=", the
\* value being neither a list nor a number: the parameter and the line left.
parserNext(kw, line) ==
  stringFound(kw, nextString(SubSeq(line, Len(kw) + 2, Len(line))))

\* A raw string is chosen; sp = StringParm(Key, raw, rawValue=True) is made;
\* its text is parsed back.
InitStringParm ==
  /\ srv = InitServer(0)
  /\ conns = [c \in Conns |-> NewConn]
  /\ nconn = 0
  /\ thr = [t \in Threads |-> NewThread(IF t = User THEN "idle" ELSE "unused")]
  /\ ntimers = 0
  /\ nlines = 0
  /\ ncmds = 0
  /\ obs \in { [InitObs EXCEPT !.codec = [stage |-> "value", value |-> v]] :
                 v \in RawStrs(MaxLen) }

Serialize ==
  /\ obs.codec.stage = "value"
  /\ obs' = [obs EXCEPT !.codec = [stage |-> "made", value |-> @.value,
                                    p |-> StringParmRaw(Key, @.value)]]
  /\ UNCHANGED <<srv, conns, nconn, thr, ntimers, nlines, ncmds>>

ParseBack ==
  /\ obs.codec.stage = "made"
  /\ obs' = [obs EXCEPT !.codec = [stage |-> "parsed", value |-> @.value,
                                    p |-> @.p, q |-> parserNext(Key, @.p.txt)]]
  /\ UNCHANGED <<srv, conns, nconn, thr, ntimers, nlines, ncmds>>

NextStringParm == Serialize \/ ParseBack

SpecStringParm == InitStringParm /\ [][NextStringParm]_vars

\* ---------------------------------------------------------------- triggers
\* Words of the lines, match specs and actions.
loggedin    == <<"l", "o", "g", "g", "e", "d", "i", "n">>
useraccount == <<"u", "s", "e", "r", "a", "c", "c", "o", "u", "n", "t">>
userbanned  == <<"u", "s", "e", "r", "b", "a", "n", "n", "e", "d">>
userid      == <<"u", "s", "e", "r", "i", "d">>
nickname    == <<"n", "i", "c", "k", "n", "a", "m", "e">>
ipaddr      == <<"i", "p", "a", "d", "d", "r">>
udpaddr     == <<"u", "d", "p", "a", "d", "d", "r">>
address     == <<"a", "d", "d", "r", "e", "s", "s">>

startswith(s, pre) == Len(pre) <= Len(s) /\ SubSeq(s, 1, Len(pre)) = pre

endswith(s, suf) ==
  Len(suf) <= Len(s) /\ SubSeq(s, Len(s) - Len(suf) + 1, Len(s)) = suf

\* k in parms, for the pairs of a dict
inParms(parms, k) == \E i \in 1..Len(parms) : parms[i][1] = k

\* parms[k] for a key that is there. (The names tried are neither chanid nor
\* channelid.)
parmsGet(parms, k) == parms[CHOOSE i \in 1..Len(parms) : parms[i][1] = k][2]

\* re.match('^' + regexp + '$', s, re.IGNORECASE) for the patterns tried:
\* letters and digits only, in lower case as the texts matched.
reMatch(regexp, s) == regexp = s

\* The place of the first ch in s.
firstAt(s, ch) ==
  CHOOSE i \in 1..Len(s) : s[i] = ch /\ \A j \in 1..(i - 1) : s[j] # ch

\* _matchAddress lines 178-179: re.findall(r'^\[(.*?)]', addr)[0], which is
\* an IndexError when the text does not begin with the bracket.
unbracket(addr) ==
  IF (\E i \in 1..Len(addr) : addr[i] = "[")
       /\ (\E i \in 1..Len(addr) : addr[i] = "]")
  THEN IF Head(addr) = "["
       THEN [raised |-> FALSE, addr |-> SubSeq(addr, 2, firstAt(addr, "]") - 1)]
       ELSE [raised |-> TRUE, addr |-> addr]
  ELSE [raised |-> FALSE, addr |-> addr]

\* _matchAddress lines 181-182: re.sub(r'^(?i)::ffff:', '', addr), where the
\* interpreter takes the pattern.
unmapped(matchval, addr) ==
  IF startswith(matchval, <<":">>) THEN addr
  ELSE IF /\ Len(addr) >= 7 /\ addr[1] = ":" /\ addr[2] = ":" /\ addr[7] = ":"
          /\ \A i \in 3..6 : addr[i] \in {"f", "F"}
  THEN SubSeq(addr, 8, Len(addr))
  ELSE addr

\* _matchAddress line 184: re.sub(r':\d+$', '', addr)
unported(addr) ==
  IF \E i \in 1..(Len(addr) - 1) :
       addr[i] = ":" /\ \A j \in (i + 1)..Len(addr) : addr[j] \in Digits
  THEN SubSeq(addr, 1,
              (CHOOSE i \in 1..(Len(addr) - 1) :
                 addr[i] = ":" /\ \A j \in (i + 1)..Len(addr) : addr[j] \in Digits)
              - 1)
  ELSE addr

\* _matchAddress lines 186-187
dotted(matchval) ==
  IF Cardinality({ i \in 1..Len(matchval) : matchval[i] = "." }) + 1 < 4
  THEN Append(matchval, ".") ELSE matchval

\* _matchAddress after the brackets were seen to, ub. The pattern of line
\* 182 has its flag (?i) after the "^": the re module of Python up to 3.10
\* takes it (inlineFlags), that of 3.11 and later raises re.error.
matchAddressOf(matchval, ub, inlineFlags) ==
  IF ub.raised \/ (~inlineFlags /\ ~startswith(matchval, <<":">>))
  THEN [raised |-> TRUE, result |-> FALSE]
  ELSE [raised |-> FALSE,
        result |-> startswith(unported(unmapped(matchval, ub.addr)),
                              dotted(matchval))]

\* Trigger._matchAddress(matchval, addr); a value None is a TypeError.
matchAddress(matchval, addr, inlineFlags) ==
  IF addr = None \/ matchval = None THEN [raised |-> TRUE, result |-> FALSE]
  ELSE matchAddressOf(matchval, unbracket(addr), inlineFlags)

RECURSIVE anyAddress(_, _, _, _)
\* _isMatch lines 156-163: the loop over the keys of the event that end in
\* "addr", from the i-th parameter on.
anyAddress(matchRE, parms, i, inlineFlags) ==
  IF i > Len(parms) THEN [raised |-> FALSE, result |-> FALSE]
  ELSE IF ~endswith(parms[i][1], <<"a", "d", "d", "r">>) THEN anyAddress(matchRE, parms, i + 1, inlineFlags)
  ELSE IF matchAddress(matchRE, parms[i][2], inlineFlags).raised
  THEN [raised |-> TRUE, result |-> FALSE]
  ELSE IF matchAddress(matchRE, parms[i][2], inlineFlags).result
  THEN [raised |-> FALSE, result |-> TRUE]
  ELSE anyAddress(matchRE, parms, i + 1, inlineFlags)

RECURSIVE matchParms(_, _, _, _)
\* _isMatch lines 149-168: the loop over the keys of the match spec, from
\* the i-th on. A value None in a regular expression match is a TypeError.
matchParms(mparms, eparms, i, inlineFlags) ==
  IF i > Len(mparms) THEN [raised |-> FALSE, result |-> TRUE]
  ELSE IF mparms[i][1] = address
  THEN IF anyAddress(mparms[i][2], eparms, 1, inlineFlags).raised
       THEN [raised |-> TRUE, result |-> FALSE]
       ELSE IF ~anyAddress(mparms[i][2], eparms, 1, inlineFlags).result
       THEN [raised |-> FALSE, result |-> FALSE]
       ELSE matchParms(mparms, eparms, i + 1, inlineFlags)
  ELSE IF ~inParms(eparms, mparms[i][1]) THEN [raised |-> FALSE, result |-> FALSE]
  ELSE IF mparms[i][2] = None \/ parmsGet(eparms, mparms[i][1]) = None
  THEN [raised |-> TRUE, result |-> FALSE]
  ELSE IF ~reMatch(mparms[i][2], parmsGet(eparms, mparms[i][1]))
  THEN [raised |-> FALSE, result |-> FALSE]
  ELSE matchParms(mparms, eparms, i + 1, inlineFlags)

\* Trigger._isMatch(match, eventline): m is match.value, a ParmLine;
\* initLine is the text the event line was made from.
isMatch(m, eventline, inlineFlags) ==
  IF m.event = None THEN [raised |-> TRUE, result |-> FALSE]
  ELSE IF m.event = <<"l", "i", "n", "e">> /\ inParms(m.parms, <<"m", "a", "t", "c", "h">>)
          /\ parmsGet(m.parms, <<"m", "a", "t", "c", "h">>) \notin {None, <<>>}
  THEN [raised |-> FALSE,
        result |-> reMatch(parmsGet(m.parms, <<"m", "a", "t", "c", "h">>), eventline.initLine)]
  ELSE IF eventline.event = None THEN [raised |-> TRUE, result |-> FALSE]
  ELSE IF ~reMatch(m.event, eventline.event) THEN [raised |-> FALSE, result |-> FALSE]
  ELSE matchParms(m.parms, eventline.parms, 1, inlineFlags)

White == {" ", "\t", "\r", "\n"}

RECURSIVE lstrip(_)
lstrip(s) == IF s # <<>> /\ Head(s) \in White THEN lstrip(Tail(s)) ELSE s

RECURSIVE rstrip(_)
rstrip(s) ==
  IF s # <<>> /\ s[Len(s)] \in White THEN rstrip(SubSeq(s, 1, Len(s) - 1)) ELSE s

RECURSIVE afterWord(_)
\* The text from the first white space on.
afterWord(s) == IF s # <<>> /\ Head(s) \notin White THEN afterWord(Tail(s)) ELSE s

\* a.split(None, 1)[1]; the empty text stands for the IndexError of a text
\* of one word.
splitRest(a) == lstrip(afterWord(lstrip(a)))

\* The text a begins with "%(": r'%\((\S+?)\)' matches up to the j-th
\* character.
nameEndsAt(a, j) == a[j] = ")" /\ \A i \in 3..(j - 1) : a[i] \notin White

\* The end of the shortest such match, 0 when there is none.
nameEnd(a) ==
  IF \E j \in 4..Len(a) : nameEndsAt(a, j)
  THEN CHOOSE j \in 4..Len(a) :
         nameEndsAt(a, j) /\ \A i \in 4..(j - 1) : ~nameEndsAt(a, i)
  ELSE 0

\* '%s' % val
str(val) == IF val = None THEN <<"N", "o", "n", "e">> ELSE val

\* Trigger._doSubs for the name k: parms[k] raises KeyError for a name the
\* event does not have.
doSubs(k, parms) ==
  IF startswith(k, <<"!">>)
  THEN IF ~inParms(parms, Tail(k)) THEN [raised |-> TRUE, text |-> <<>>]
       ELSE [raised |-> FALSE,
             text |-> IF parmsGet(parms, Tail(k)) = None THEN <<>>
                      ELSE parmsGet(parms, Tail(k))]
  ELSE IF ~inParms(parms, k) THEN [raised |-> TRUE, text |-> <<>>]
  ELSE [raised |-> FALSE,
        text |-> k \o <<"=", "\"">> \o str(parmsGet(parms, k)) \o <<"\"">>]

subsJoin(pre, r) ==
  IF r.raised THEN r ELSE [raised |-> FALSE, text |-> pre \o r.text]

subsAt(d, rest) == IF d.raised THEN d ELSE subsJoin(d.text, rest)

RECURSIVE subs(_, _)
\* _doAction lines 214-215: re.sub(r'%\((\S+?)\)', ms, a)
subs(a, parms) ==
  IF a = <<>> THEN [raised |-> FALSE, text |-> <<>>]
  ELSE IF startswith(a, <<"%", "(">>) /\ nameEnd(a) # 0
  THEN subsAt(doSubs(SubSeq(a, 3, nameEnd(a) - 1), parms),
              subs(SubSeq(a, nameEnd(a) + 1, Len(a)), parms))
  ELSE subsJoin(<<Head(a)>>, subs(Tail(a), parms))

\* The name a server is configured under.
shortname == <<"s">>

\* What an action did. kind: "send", "sendWithWait", "say", "command", or
\* "failed" for an exception; sub: the text after the substitutions, less
\* its first word for send and say; frame: the characters put on the wire.
Did(kind, sub, frame) == [kind |-> kind, sub |-> sub, frame |-> frame]

\* sendFunc(ParmLine(a)) for send: ParmLine may raise ValueError; the
\* connection sends str(line).rstrip() + CRLF (ttapi.py lines 313-325; the
\* socket takes the frame).
sendLine(a, pl) ==
  IF ~pl.ok THEN Did("failed", a, <<>>)
  ELSE Did("send", a, rstrip(str(pl.line)) \o <<"\r", "\n">>)

\* Trigger._doAction once the substitutions gave the text a (lines 216-234).
\* (None of the actions tried begins with sendwithwait.)
acted(a) ==
  IF startswith(a, <<"s", "e", "n", "d", " ">>)
  THEN IF splitRest(a) = <<>> THEN Did("failed", a, <<>>)
       ELSE sendLine(splitRest(a), ParmLine(rstrip(splitRest(a))))
  ELSE IF startswith(a, <<"s", "e", "n", "d", "w", "i", "t", "h", "w", "a", "i", "t", " ">>) THEN Did("sendWithWait", splitRest(a), <<>>)
  ELSE IF startswith(a, <<"s", "a", "y", " ">>)
  THEN IF splitRest(a) = <<>> THEN Did("failed", a, <<>>)
       ELSE Did("say", splitRest(a), <<>>)
  ELSE Did("command", <<"s", "e", "r", "v", "e", "r", " ">> \o shortname \o <<" ">> \o a, <<>>)

substituted(sb) == IF sb.raised THEN Did("failed", <<>>, <<>>) ELSE acted(sb.text)

\* Trigger._doAction for the action text a and the event's parameters
doAction(a, parms) == substituted(subs(a, parms))

RECURSIVE doActions(_, _, _, _)
\* Trigger.apply lines 116-121: the loop over the actions, from the j-th
\* on; runs are the actions begun so far.
doActions(actions, parms, j, runs) ==
  IF j > Len(actions) THEN [raised |-> FALSE, matched |-> TRUE, runs |-> runs]
  ELSE IF doAction(actions[j], parms).kind = "failed"
  THEN [raised |-> TRUE, matched |-> TRUE,
        runs |-> Append(runs, [action |-> j] @@ doAction(actions[j], parms))]
  ELSE doActions(actions, parms, j + 1,
                 Append(runs, [action |-> j] @@ doAction(actions[j], parms)))

RECURSIVE Trigger_apply(_, _, _, _)
\* Trigger.apply(parmline), from the i-th match on: the actions run for the
\* first match that succeeds.
Trigger_apply(trigger, parmline, i, inlineFlags) ==
  IF i > Len(trigger.matches)
  THEN [raised |-> FALSE, matched |-> FALSE, runs |-> <<>>]
  ELSE IF isMatch(trigger.matches[i], parmline, inlineFlags).raised
  THEN [raised |-> TRUE, matched |-> FALSE, runs |-> <<>>]
  ELSE IF isMatch(trigger.matches[i], parmline, inlineFlags).result
  THEN doActions(trigger.actions, parmline.parms, 1, <<>>)
  ELSE Trigger_apply(trigger, parmline, i + 1, inlineFlags)

\* The runs rs as runs of the i-th trigger.
ofTrigger(rs, i) == [k \in 1..Len(rs) |-> [trigger |-> i] @@ rs[k]]

RECURSIVE Triggers_apply(_, _, _, _, _)
\* Triggers.apply(parmline), from the i-th trigger on: the list
\* comprehension of line 304 ends at the first exception. (No custom code
\* is installed for line 306.)
Triggers_apply(triggers, parmline, i, runs, inlineFlags) ==
  IF i > Len(triggers) THEN [raised |-> FALSE, runs |-> runs]
  ELSE IF Trigger_apply(triggers[i], parmline, 1, inlineFlags).raised
  THEN [raised |-> TRUE,
        runs |-> runs \o ofTrigger(Trigger_apply(triggers[i], parmline, 1, inlineFlags).runs, i)]
  ELSE Triggers_apply(triggers, parmline, i + 1,
         runs \o ofTrigger(Trigger_apply(triggers[i], parmline, 1, inlineFlags).runs, i),
         inlineFlags)

\* MyTeamtalkServer.hookEvents(eventline, afterDispatch). applied:
\* triggers.apply was called; raised: it ended in an exception, which is
\* reported as "Trigger failure".
hookEvents(triggers, eventline, afterDispatch, inlineFlags) ==
  IF ~afterDispatch \/ eventline.event \in {userbanned, useraccount}
  THEN [applied |-> FALSE, raised |-> FALSE, runs |-> <<>>]
  ELSE [applied |-> TRUE] @@ Triggers_apply(triggers, eventline, 1, <<>>, inlineFlags)

\* A trigger as readServers makes it: match specs, which are ParmLines, and
\* actions, which are texts.
Trigger(matches, actions) ==
  [matches |-> [i \in 1..Len(matches) |-> ParmLine(matches[i])],
   actions |-> actions]

TriggerPool ==
  { Trigger(<<<<"l", "o", "g", "g", "e", "d", "i", "n", " ", "a", "d", "d", "r", "e", "s", "s", "=", "1", "0", ".", "0", ".", "1">>>>, <<<<"s", "e", "n", "d", " ", "k", "i", "c", "k", " ", "%", "(", "u", "s", "e", "r", "i", "d", ")">>>>),
    Trigger(<<<<"l", "o", "g", "g", "e", "d", "i", "n">>>>, <<<<"s", "e", "n", "d", " ", "k", "i", "c", "k", " ", "u", "s", "e", "r", "i", "d", "=", "%", "(", "u", "s", "e", "r", "i", "d", ")">>>>),
    Trigger(<<<<"l", "o", "g", "g", "e", "d", "i", "n">>>>, <<<<"s", "e", "n", "d", " ", "m", "e", "s", "s", "a", "g", "e", " ", "%", "(", "n", "i", "c", "k", "n", "a", "m", "e", ")">>, <<"s", "a", "y", " ", "h", "e", "l", "l", "o">>>>),
    Trigger(<<<<"l", "o", "g", "g", "e", "d", "o", "u", "t">>, <<"l", "o", "g", "g", "e", "d", "i", "n", " ", "u", "s", "e", "r", "i", "d", "=", "9">>>>, <<<<"s", "a", "y", " ", "i", "n">>, <<"w", "h", "o", "i", "s", " ", "%", "(", "!", "u", "s", "e", "r", "i", "d", ")">>>>) }

TriggerSets == UNION { [1..n -> TriggerPool] : n \in 0..2 }

\* The event lines tried.
EventTexts ==
  { <<"l", "o", "g", "g", "e", "d", "i", "n", " ", "u", "s", "e", "r", "i", "d", "=", "9", " ", "i", "p", "a", "d", "d", "r", "=", "1", "0", ".", "0", ".", "1", ".", "7">>,
    <<"l", "o", "g", "g", "e", "d", "i", "n", " ", "u", "s", "e", "r", "i", "d", "=", "9", " ", "i", "p", "a", "d", "d", "r", "=", "1", "0", ".", "0", ".", "1", "0", ".", "7">>,
    <<"l", "o", "g", "g", "e", "d", "i", "n", " ", "u", "s", "e", "r", "i", "d", "=", "9", " ", "n", "i", "c", "k", "n", "a", "m", "e", "=", "a">>,
    <<"l", "o", "g", "g", "e", "d", "i", "n", " ", "u", "s", "e", "r", "i", "d", "=", "9", " ", "n", "i", "c", "k", "n", "a", "m", "e", "=", "\"", "a", " ", "b", "\"">>,
    <<"l", "o", "g", "g", "e", "d", "i", "n", " ", "u", "s", "e", "r", "i", "d", "=", "8">>,
    <<"l", "o", "g", "g", "e", "d", "o", "u", "t", " ", "u", "s", "e", "r", "i", "d", "=", "9">>,
    <<"s", "t", "a", "t", "s", " ", "u", "s", "e", "r", "s", "t", "o", "t", "a", "l", "=", "9">>,
    <<"u", "s", "e", "r", "a", "c", "c", "o", "u", "n", "t", " ", "u", "s", "e", "r", "n", "a", "m", "e", "=", "a">>,
    <<"u", "s", "e", "r", "b", "a", "n", "n", "e", "d", " ", "i", "p", "a", "d", "d", "r", "=", "1", "0", ".", "0", ".", "1", ".", "7">> }

\* ParmLine(line) as processLine makes it, with initLine.
eventLine(text) == [initLine |-> text] @@ ParmLine(text)

\* The triggers of the configuration are in place.
InitTriggers ==
  /\ srv \in { [InitServer(0) EXCEPT !.triggers = ts] : ts \in TriggerSets }
  /\ conns = [c \in Conns |-> NewConn]
  /\ nconn = 0
  /\ thr = [t \in Threads |-> NewThread(IF t = User THEN "idle" ELSE "unused")]
  /\ ntimers = 0
  /\ nlines = 0
  /\ ncmds = 0
  /\ obs = InitObs

\* hookEvents(eventline, afterDispatch) is called for the line text.
HookEvents(text, afterDispatch, inlineFlags) ==
  /\ obs' = [obs EXCEPT !.hook =
               [stage |-> "called", line |-> eventLine(text),
                after |-> afterDispatch, flags |-> inlineFlags]
               @@ hookEvents(srv.triggers, eventLine(text), afterDispatch,
                             inlineFlags)]
  /\ UNCHANGED <<srv, conns, nconn, thr, ntimers, nlines, ncmds>>

NextTriggers ==
  \E text \in EventTexts : \E after, inlineFlags \in BOOLEAN :
    HookEvents(text, after, inlineFlags)

SpecTriggers == InitTriggers /\ [][NextTriggers]_vars

\* The addresses tried: the forms a server gives an IPv4 address.
AddrForms(b) ==
  { b, b \o <<":", "4", "4", "3", "2">>, <<":", ":", "f", "f", "f", "f", ":">> \o b, <<"[">> \o b \o <<"]", ":", "4", "4", "3", "2">>,
    <<"[", ":", ":", "f", "f", "f", "f", ":">> \o b \o <<"]", ":", "4", "4", "3", "2">> }

Addrs == UNION { AddrForms(b) : b \in {<<"1", "0", ".", "0", ".", "1", ".", "7">>, <<"1", "0", ".", "0", ".", "1", "0", ".", "7">>, <<"1", "0", ".", "0", ".", "1", ".", "7", "0">>} }

\* The values of address= tried.
MatchVals == { <<"1", "0", ".", "0", ".", "1">>, <<"1", "0", ".", "0">>, <<"1", "0", ".", "0", ".", "1", ".", "7">>, <<":", ":", "f", "f", "f", "f", ":", "1", "0", ".", "0", ".", "1">>, <<":">> }

\* The parameters of the event lines tried.
AddrParms ==
  {<<>>}
    \cup { <<<<k, a>>>> : k \in {ipaddr, udpaddr, nickname}, a \in Addrs }
    \cup { <<<<ipaddr, a>>, <<udpaddr, b>>>> : a, b \in Addrs }

\* ParmLine(line) for the line of a loggedin event with the parameters
\* parms, as processLine makes it.
loggedinLine(parms) ==
  [ok |-> TRUE, event |-> loggedin, parms |-> parms,
   line |-> makeline(loggedin, parms), initLine |-> makeline(loggedin, parms)]

\* A match spec with address=m, and the line of an event.
InitAddress ==
  /\ srv = InitServer(0)
  /\ conns = [c \in Conns |-> NewConn]
  /\ nconn = 0
  /\ thr = [t \in Threads |-> NewThread(IF t = User THEN "idle" ELSE "unused")]
  /\ ntimers = 0
  /\ nlines = 0
  /\ ncmds = 0
  /\ obs \in { [InitObs EXCEPT !.hook = [stage |-> "chosen", m |-> m,
                                         line |-> loggedinLine(parms)]] :
                 m \in MatchVals, parms \in AddrParms }

\* Trigger._isMatch(match, eventline) for the match spec "loggedin
\* address=m".
IsMatch(inlineFlags) ==
  /\ obs.hook.stage = "chosen"
  /\ obs' = [obs EXCEPT !.hook =
               [stage |-> "matched", m |-> @.m, line |-> @.line,
                flags |-> inlineFlags,
                match |-> isMatch(ParmLine(<<"l", "o", "g", "g", "e", "d", "i", "n", " ", "a", "d", "d", "r", "e", "s", "s", "=">> \o @.m), @.line,
                                  inlineFlags)]]
  /\ UNCHANGED <<srv, conns, nconn, thr, ntimers, nlines, ncmds>>

NextAddress == \E inlineFlags \in BOOLEAN : IsMatch(inlineFlags)

SpecAddress == InitAddress /\ [][NextAddress]_vars

\* ------------------------------------------------------------ status reports
DigitChars == <<"0", "1", "2", "3", "4", "5", "6", "7", "8", "9">>

RECURSIVE intFrom(_, _)
intFrom(s, acc) ==
  IF s = <<>> THEN acc
  ELSE intFrom(Tail(s),
               10 * acc + (CHOOSE d \in 0..9 : DigitChars[d + 1] = Head(s)))

\* int(s) for a text of digits
int(s) == intFrom(s, 0)

\* "{0:02d}".format(n), n < 100
two(n) == <<DigitChars[(n \div 10) + 1], DigitChars[(n % 10) + 1]>>

\* "%d" % n, n < 100
decimal(n) == IF n < 10 THEN <<DigitChars[n + 1]>> ELSE two(n)

\* TeamtalkServer.secsToTime(secs) for whole seconds, less than 100 hours
secsToTime(secs) ==
  two((secs \div 60) \div 60) \o <<":">> \o two((secs \div 60) % 60)
    \o <<":">> \o two(secs % 60)

\* TeamtalkServer.default_bitnames[i]
default_bitnames(i) ==
  << <<"o", "f", "f">> \o decimal(i + 1), <<"o", "n">> \o decimal(i + 1) >>

RECURSIVE collectLoop(_, _, _, _)
\* collectBits, the loop "while bits0"
collectLoop(bits0, oldval0, newval0, acc) ==
  IF bits0 = 0 THEN acc
  ELSE collectLoop(bits0 \div 2, oldval0 \div 2, newval0 \div 2,
         IF bits0 % 2 = 1
         THEN [bits |-> acc.bits + acc.newbit,
               oldval |-> acc.oldval + (oldval0 % 2) * acc.newbit,
               newval |-> acc.newval + (newval0 % 2) * acc.newbit,
               newbit |-> 2 * acc.newbit,
               cnt |-> acc.cnt + 1]
         ELSE acc)

\* TeamtalkServer.collectBits
collectBits(bits0, oldval0, newval0) ==
  collectLoop(bits0, oldval0, newval0,
              [bits |-> 0, oldval |-> 0, newval |-> 0, newbit |-> 1, cnt |-> 0])

\* doFlagBits, the name of bit i: its change from o to n.
bitName(name, o, n) ==
  IF n = 1 /\ o = 0 THEN name[2] ELSE IF o = 1 /\ n = 0 THEN name[1] ELSE <<>>

RECURSIVE namedBits(_, _, _, _, _)
\* doFlagBits, the loop over the bits named one by one, from bit i on. (The
\* names given are strings.)
namedBits(oldval, newval, i, cnt, names) ==
  IF i >= cnt THEN <<>>
  ELSE (IF bitName(IF i < Len(names) THEN <<<<>>, names[i + 1]>>
                   ELSE default_bitnames(i), oldval % 2, newval % 2) # <<>>
        THEN <<bitName(IF i < Len(names) THEN <<<<>>, names[i + 1]>>
                       ELSE default_bitnames(i), oldval % 2, newval % 2)>>
        ELSE <<>>)
       \o namedBits(oldval \div 2, newval \div 2, i + 1, cnt, names)

\* doFlagBits after collectBits gave c.
flagBits(c, names) ==
  IF Len(names) = c.bits + 1
  THEN IF c.oldval # c.newval THEN <<names[c.newval + 1]>> ELSE <<>>
  ELSE namedBits(c.oldval, c.newval, 0, c.cnt, names)

\* TeamtalkServer.doFlagBits(oldval, newval, bits, names), bits # 0;
\* names <<>>: None
doFlagBits(oldval, newval, bits, names) ==
  flagBits(collectBits(bits, oldval, newval), names)

\* 0xFFFFFFFF without its top bit, which no statusmode tried has.
allBits == 2147483647

RECURSIVE join(_, _)
\* sep.join(list)
join(sep, list) ==
  IF list = <<>> THEN <<>>
  ELSE IF Len(list) = 1 THEN list[1]
  ELSE list[1] \o sep \o join(sep, Tail(list))

\* doStatus lines 1117-1127: the changes of the flags.
statusChanges(oldstat, newstat) ==
  doFlagBits(oldstat, newstat, 3, <<<<"a", "c", "t", "i", "v", "e">>, <<"i", "d", "l", "e">>, <<"q", "u", "e", "s", "t", "i", "o", "n">>, <<"s", "t", "a", "t", "3">>>>)
    \o doFlagBits(oldstat, newstat, 256, <<<<"m", "a", "l", "e">>, <<"f", "e", "m", "a", "l", "e">>>>)
    \o doFlagBits(oldstat, newstat, 512, <<<<"d", "i", "s", "a", "b", "l", "e", "d", " ", "v", "i", "d", "e", "o">>, <<"e", "n", "a", "b", "l", "e", "d", " ", "v", "i", "d", "e", "o">>>>)
    \o doFlagBits(oldstat, newstat, 2048,
                  <<<<"s", "t", "o", "p", "p", "e", "d", " ", "s", "t", "r", "e", "a", "m", "i", "n", "g">>, <<"s", "t", "a", "r", "t", "e", "d", " ", "s", "t", "r", "e", "a", "m", "i", "n", "g">>>>)
    \o doFlagBits(oldstat, newstat, allBits - 3 - 256 - 512 - 2048, <<>>)

\* dict.get(k): None for a key that is not there.
get(d, k) == IF k \in DOMAIN d THEN d[k] ELSE None

\* bool(v) for a text or None
truthy(v) == v # None /\ v # <<>>

\* A message "cleared" that is reported with the flags too.
statusBufCleared(buf, stat, oldstat) ==
  IF truthy(stat)
  THEN IF buf # <<>> THEN buf \o <<" ", "(", "m", "e", "s", "s", "a", "g", "e", " ", "\"">> \o stat \o <<"\"", ")">>
       ELSE <<"m", "e", "s", "s", "a", "g", "e", " ", "\"">> \o stat \o <<"\"">>
  ELSE IF truthy(oldstat)
       THEN IF buf # <<>> THEN buf \o <<",", " ", "m", "e", "s", "s", "a", "g", "e", " ", "c", "l", "e", "a", "r", "e", "d">> ELSE <<"m", "e", "s", "s", "a", "g", "e", " ", "c", "l", "e", "a", "r", "e", "d">>
       ELSE buf

\* doStatus lines 1128-1135: the flags with the status message.
statusBuf(buf, stat, oldstat) ==
  IF truthy(stat)
  THEN IF buf # <<>> THEN buf \o <<" ", "(">> \o stat \o <<")">>
       ELSE <<"m", "e", "s", "s", "a", "g", "e", " ", "\"">> \o stat \o <<"\"">>
  ELSE IF buf = <<>> /\ truthy(oldstat) THEN <<"m", "e", "s", "s", "a", "g", "e", " ", "c", "l", "e", "a", "r", "e", "d">>
  ELSE buf

\* doStatus lines 1140-1147: the time since the last status change.
statbuf(diff) ==
  IF replace(replace(diff, <<"0">>, <<>>), <<":">>, <<>>) # <<>>
  THEN <<" ", "a", "f", "t", "e", "r", " ">> \o diff ELSE <<>>

\* doStatus lines 1136-1150 for the text buf at the time now: what is added
\* to lst, and parms.
statusTimed(buf, parms, now) ==
  IF buf = <<>> THEN [lst |-> <<>>, parms |-> parms]
  ELSE [lst |-> <<<<"s", "t", "a", "t", "u", "s", " ">> \o buf
                    \o statbuf(IF "statustime" \in DOMAIN parms
                               THEN secsToTime(now - parms["statustime"])
                               ELSE <<>>)>>,
        parms |-> put(parms, "statustime", now)]

\* int(parms.get("statusmode", 0))
statusmodeOf(parms) ==
  IF "statusmode" \in DOMAIN parms THEN int(parms["statusmode"]) ELSE 0

\* TeamtalkServer.doStatus(lst, parms, oldParms) on an empty lst at the
\* time now.
doStatus(parms, oldParms, now) ==
  statusTimed(statusBuf(join(<<",", " ">>, statusChanges(statusmodeOf(oldParms),
                                                  statusmodeOf(parms))),
                        get(parms, "statusmsg"), get(oldParms, "statusmsg")),
              parms, now)

\* updateParms lines 926-928: the values of k differ, a missing one taken as
\* the empty text.
differ(oldParms, parms, k) ==
  (k \in DOMAIN oldParms \/ k \in DOMAIN parms)
    /\ (IF k \in DOMAIN oldParms THEN oldParms[k] ELSE <<>>)
         # (IF k \in DOMAIN parms THEN parms[k] ELSE <<>>)

\* updateParms lines 914-933 for parms with newParms merged in and the
\* statustime set: the status report.
statusReport(oldParms, parms, now) ==
  IF differ(oldParms, parms, "statusmode") \/ differ(oldParms, parms, "statusmsg")
  THEN doStatus(parms, oldParms, now)
  ELSE [lst |-> <<>>, parms |-> parms]

\* updateParms(name, parms, newParms) for the status keys of a user record
\* (lines 905-933), at the time now.
updateStatus(parms, newParms, now) ==
  statusReport(parms,
               IF "statustime" \in DOMAIN parms THEN update(parms, newParms)
               ELSE put(update(parms, newParms), "statustime", now),
               now)

\* The statusmode and statusmsg values of the updateuser lines tried.
Modes == {<<"0">>, <<"1">>, <<"2">>, <<"4">>, <<"2", "5", "6">>}

Msgs == {<<>>, <<"b", "r", "b">>}

StatusParms ==
  { [statusmode |-> m, statusmsg |-> s] : m \in Modes, s \in Msgs }
    \cup { [statusmode |-> m] : m \in Modes }
    \cup { [statusmsg |-> s] : s \in Msgs }

\* A user record without a status, at time 0. user: the record; now: the
\* clock in seconds; lst: the report of the latest update; old: the status
\* keys of the record before it.
InitStatus ==
  /\ srv = InitServer(0)
  /\ conns = [c \in Conns |-> NewConn]
  /\ nconn = 0
  /\ thr = [t \in Threads |-> NewThread(IF t = User THEN "idle" ELSE "unused")]
  /\ ntimers = 0
  /\ nlines = 0
  /\ ncmds = 0
  /\ obs = [InitObs EXCEPT !.hook = [stage |-> "status", user |-> AttrDict,
                                     now |-> 0, lst |-> <<>>,
                                     old |-> AttrDict, n |-> 0]]

\* event_updateuser for a user that is known (lines 1512-1514), its
\* updateParms with the status keys newParms.
StatusUpdated(h, r) ==
  [stage |-> "status", user |-> r.parms, now |-> h.now, lst |-> r.lst,
   old |-> drop(h.user, "statustime"), n |-> 1 - h.n]

UpdateUserStatus(newParms) ==
  /\ obs.hook.stage = "status"
  /\ obs' = [obs EXCEPT !.hook =
               StatusUpdated(@, updateStatus(@.user, newParms, @.now))]
  /\ UNCHANGED <<srv, conns, nconn, thr, ntimers, nlines, ncmds>>

\* time.time() goes on by d seconds (a change after 70 seconds is the one
\* reported with "after 00:01:10").
TimePasses(d) ==
  /\ obs.hook.stage = "status"
  /\ obs.hook.now + d <= MaxClock
  /\ obs' = [obs EXCEPT !.hook.now = @ + d]
  /\ UNCHANGED <<srv, conns, nconn, thr, ntimers, nlines, ncmds>>

NextStatus ==
  \/ \E newParms \in StatusParms : UpdateUserStatus(newParms)
  \/ TimePasses(70)

SpecStatus == InitStatus /\ [][NextStatus]_vars

\* ------------------------------------------------------------ properties
\* C1: "_disconnected_" is delivered to the session once, not more, for
\* each connection object, whichever of the watcher (end of stream), the
\* pinger (failed ping) and the user's disconnect call disconnect(), and in
\* whatever order.
C1_DisconnectedOnce == \A c \in Conns : obs.disc[c] <= 1

\* The lines that end or abort a collection that has begun.
EndsCollection(call) ==
  \/ call.line.ev \in {"_connected_", "_disconnected_"}
  \/ call.line.ev = "end" /\ idIs(call.line, call.wait)

\* C2: while _collecting is 2, a line other than "end id=<waitID>",
\* "_connected_" and "_disconnected_" is added at the end of the collection
\* and is not dispatched: no handler runs, hookEvents is not called, and
\* state, info, users, channels and files stay as they are.
C2_CollectedNotDispatched ==
  (obs.last.coll = 2 /\ ~EndsCollection(obs.last))
    => /\ obs.last.eaten /\ obs.last.appended
       /\ ~obs.last.handled /\ obs.last.hooks = 0
       /\ obs.last.kept

\* A line that would change the model arrives inside a block being
\* collected.
C2_Witness ==
  /\ obs.last.coll = 2 /\ obs.last.line = Ln("loggedin", OtherUid)
  /\ srv.collecting = 2 /\ Len(srv.outputCollection) = 2

\* C3: sendWithWait(line, returnResults=True) hands back the whole
\* response or, after a timeout, none: lines are never handed back unless
\* the "end" of their block was read.
C3_NoPartialResult ==
  (obs.result.returned /\ obs.result.lines # <<>>) => obs.result.ended

\* The transitions of the session state that are listed.
Listed(a, b) ==
  \/ b = "disconnected"
  \/ <<a, b>> \in { <<"disconnected", "connecting">>, <<"connecting", "connected">>,
                    <<"connected", "loggingIn">>, <<"loggingIn", "loggedIn">>,
                    <<"loggingIn", "loginError">>, <<"loginError", "connected">>,
                    <<"loggedIn", "loggingOut">>, <<"loggingOut", "connected">> }

\* C4: every change of the session state is a listed transition; so
\* loggedIn is entered from loggingIn only, whatever the login caller, the
\* watcher and the disconnects do in between.
C4_ListedTransitions ==
  [][srv'.state # srv.state => Listed(srv.state, srv'.state)]_vars

\* A frame of the given kind goes on the wire in this step.
Sends(kind) == obs'.nsent # obs.nsent /\ obs'.sent.kind = kind

\* C5: when logout() has sent the logout frame of a session in state
\* loggedIn, the state is loggingOut (until "loggedout" arrives).
C5_LoggingOut ==
  [][(srv.state = "loggedIn" /\ Sends("logout")) => srv'.state = "loggingOut"]_vars

\* "_disconnected_" is processed in this step.
DisconnectedStep == obs'.disc # obs.disc

\* The disconnect command of the user calls disconnect() in this step.
UserDisconnectStep ==
  thr[User].pc = "dd_check" /\ thr'[User].pc = "idle" /\ DisconnectedStep

\* C6: when "_disconnected_" is processed, a background login is scheduled
\* if and only if autoLogin is truthy and manualCM is not set; and on an
\* autoLogin session a disconnect the user asked for schedules none.
C6_ReconnectPolicy ==
  [][ /\ DisconnectedStep =>
           ((ntimers' = ntimers + 1) <=> (srv'.autoLogin # 0 /\ ~srv'.manualCM))
      /\ UserDisconnectStep => ntimers' = ntimers ]_vars

\* C7: after "kicked" on a session with autoLogin = 1 no reconnect is
\* scheduled, by the logout or the disconnect that follows or later, until
\* the user logs in again; with autoLogin = 2 the disconnect schedules the
\* reconnect.
C7_KickSuppresses ==
  [][ /\ (obs.kicked /\ obs'.kicked) => ntimers' = ntimers
      /\ (DisconnectedStep /\ srv'.autoLogin = 2) => ntimers' = ntimers + 1 ]_vars

\* The watcher hands the line L to a session in the given state, with
\* autoLogin = 1, in this step.
Handled(L, state) ==
  /\ nlines' # nlines /\ obs'.last.line = L /\ ~obs'.last.eaten
  /\ srv.state = state /\ srv.autoLogin = 1

\* What the logout of this user does to the session.
LoggedOut ==
  /\ srv'.state = "connected"
  /\ DOMAIN srv'.users = {srv.info.userid} /\ DOMAIN srv'.channels = {}
  /\ srv'.me = srv.info.userid
  /\ srv'.ev_loggedOut

\* A reconnect timer fires in this step, on a session that has an open
\* connection and is not logged in.
TimerLogin ==
  /\ \E i \in BgIds : thr[Bg(i)].pc = "timer" /\ thr'[Bg(i)].pc # "timer"
  /\ srv.conn # 0 /\ conns[srv.conn].net = "up" /\ ~conns[srv.conn].shuttingDown
  /\ ~srv.ev_loggedIn

\* C8 as stated: the parameterless "loggedout" on a logged-in session with
\* autoLogin = 1 leaves it connected, with no channels and this user only,
\* releases logout(), and starts the one timer of the later login frame.
C8_SelfLogoutRecycles ==
  [][Handled(Ln("loggedout", 0), "loggedIn")
       => (LoggedOut /\ ntimers' = ntimers + 1)]_vars

\* C8, amended: as stated, but the timer is started unless manualCM is set
\* (the session was kicked since the last login call); when a timer fires
\* on the open connection, one login frame goes out on it.
C8_SelfLogoutRecyclesUnlessKicked ==
  [][ /\ Handled(Ln("loggedout", 0), "loggedIn")
           => (LoggedOut /\ ((ntimers' = ntimers + 1) <=> ~srv.manualCM))
      /\ TimerLogin
           => (Sends("login") /\ obs'.sent.conn = srv.conn
               /\ srv'.state = "loggingIn") ]_vars

\* The self-logout of a logged-in session that had a channel: the timer is
\* pending, the session is connected and has this user only.
C8_Witness ==
  /\ obs.last.line = Ln("loggedout", 0) /\ obs.last.li
  /\ ~obs.last.kept /\ DOMAIN srv.channels = {} /\ DOMAIN srv.users = {MyUid}
  /\ srv.autoLogin = 1 /\ ~srv.manualCM /\ srv.state = "connected"
  /\ srv.ev_loggedOut
  /\ \E i \in BgIds : thr[Bg(i)].pc = "timer"

\* C9: once terminate() has returned the session stays disconnected: no
\* state change, no connection attempt and no frame afterwards.
C9_Terminal ==
  [][obs.terminated => /\ srv'.state = "disconnected"
                       /\ nconn' = nconn
                       /\ obs'.nsent = obs.nsent]_vars

\* A watcher takes this step.
WatcherStep ==
  \E c \in Conns : /\ thr[W(c)].pc = "w_read"
                   /\ nlines' # nlines \/ thr'[W(c)] # thr[W(c)]

\* C10: state, info, users, channels and files are written by the watcher
\* only, whichever threads call login(), disconnect() or send().
C10_WatcherWrites == [][Model(srv') # Model(srv) => WatcherStep]_vars

\* login() of the command thread returns in this step.
LoginReturnStep == obs'.login # obs.login /\ obs'.login # "none"

\* C11: login(background=False) returns True if and only if the session
\* state is loggedIn when it returns; so after the server answered the
\* login frame with "error" (state loginError, then connected) it returns
\* False.
C11_LoginResult ==
  [][LoginReturnStep => ((obs'.login = "True") <=> srv'.state = "loggedIn")]_vars

\* sendWithWait of the command thread ends its wait in this step.
WaitEnds == thr[User].pc = "sw_wait" /\ thr'[User].pc # "sw_wait"

\* A watcher hands the line L to the session in this step.
Reads(L) == nlines' # nlines /\ obs'.last.line = L

\* A begin or end marker of the request that timed out is read in this
\* step, while a later request waits.
LateMarker ==
  /\ obs.tmo # 0 /\ srv.waitID # 0 /\ obs.tmo # srv.waitID
  /\ Reads(Ln("begin", obs.tmo)) \/ Reads(Ln("end", obs.tmo))

\* C12: when the wait of sendWithWait times out, waitID and _collecting are
\* 0 afterwards; a late marker of the timed-out request leaves the wait of
\* the next request as it is (and its collection, unless it comes inside
\* the block), and so does every line read before the begin of the request
\* that waits; the next request's own begin starts its collection, its own
\* end releases the caller, and the caller gets what was collected.
C12_TimeoutThenNext ==
  [][ /\ (WaitEnds /\ ~srv.ev_idblockDone)
           => (srv'.waitID = 0 /\ srv'.collecting = 0)
      /\ LateMarker
           => /\ srv'.waitID = srv.waitID /\ srv'.collecting = srv.collecting
              /\ srv'.ev_idblockDone = srv.ev_idblockDone
              /\ srv.collecting # 2 => srv'.outputCollection = srv.outputCollection
      /\ ( /\ srv.collecting = 1 /\ nlines' # nlines
            /\ ~Reads(Ln("begin", srv.waitID)) /\ ~Reads(Ln("end", srv.waitID)) )
           => /\ srv'.waitID = srv.waitID /\ srv'.collecting = 1
              /\ srv'.ev_idblockDone = srv.ev_idblockDone
              /\ srv'.outputCollection = srv.outputCollection
      /\ (srv.collecting = 1 /\ Reads(Ln("begin", srv.waitID)))
           => (srv'.collecting = 2 /\ srv'.outputCollection = <<>>)
      /\ (srv.waitID # 0 /\ Reads(Ln("end", srv.waitID)))
           => /\ srv'.ev_idblockDone /\ srv'.waitID = 0
              /\ srv.collecting = 2
                   => /\ srv'.collecting = 0
                      /\ srv'.outputCollection = srv.outputCollection
      /\ (WaitEnds /\ srv.ev_idblockDone /\ thr[User].rr)
           => (obs'.result.lines = srv.outputCollection /\ srv'.collecting = 0)
    ]_vars

\* The first request timed out; a marker of it came while the second
\* waited; the second got its whole response.
C12_Witness ==
  /\ obs.tmo = 1 /\ obs.late /\ srv.curID = 2
  /\ obs.result.returned /\ obs.result.ended
  /\ obs.result.lines = <<Ln("ok", 0)>>
  /\ srv.waitID = 0 /\ srv.collecting = 0

\* The id that follows i.
Succ(i) == IF i = maxID THEN 1 ELSE i + 1

\* C13 as stated: every id put on a frame is in 1..127, and of two
\* consecutive frames with an id the second carries the id that follows
\* the first's (so never the same).
C13_IdCycle ==
  /\ \A k \in 1..Len(obs.ids) : obs.ids[k].id \in 1..maxID
  /\ Len(obs.ids) = 2 => obs.ids[2].id = Succ(obs.ids[1].id)

\* C13, amended: every id put on a frame is in 1..127, and of two
\* consecutive frames with an id sent on the same connection the second
\* carries the id that follows the first's.
C13_IdCyclePerConnection ==
  /\ \A k \in 1..Len(obs.ids) : obs.ids[k].id \in 1..maxID
  /\ (Len(obs.ids) = 2 /\ obs.ids[1].conn = obs.ids[2].conn)
       => obs.ids[2].id = Succ(obs.ids[1].id)

\* The counter wrapped between two requests on one connection.
C13_Witness ==
  /\ Len(obs.ids) = 2 /\ obs.ids[1].conn = obs.ids[2].conn
  /\ obs.ids[1].id = maxID /\ obs.ids[2].id = 1 /\ srv.curID = 1

\* A watcher reads a line in this step.
ReadStep == nlines' # nlines

\* C14: the watcher withholds a line from the owner exactly when it is a
\* pong read outside every "begin id="/"end id=" block; a pong inside a
\* block goes to the owner, and into the collection when the block is
\* being collected.
C14_PongOutsideBlock ==
  [][ReadStep =>
        /\ ~obs'.rd.delivered
             <=> (obs'.rd.line.ev = "pong" /\ ~obs'.rd.inblock)
        /\ (obs'.rd.line.ev = "pong" /\ obs'.rd.inblock /\ srv.collecting = 2)
             => (obs'.last.line = obs'.rd.line /\ obs'.last.appended)
    ]_vars

\* A pong was collected inside the block of a request, and a pong was
\* dropped after the block.
C14_Witness ==
  /\ obs.rd = [line |-> Ln("pong", 0), inblock |-> FALSE, delivered |-> FALSE]
  /\ obs.result.returned /\ obs.result.lines = <<Ln("pong", 0)>>
  /\ obs.result.ended

\* The first two lines the owner got from connection c are "_connected_"
\* and the welcome line.
Welcomed(c) ==
  /\ Len(obs.hs[c]) = 2
  /\ obs.hs[c][1].ev = "_connected_" /\ obs.hs[c][2].ev = "welcome"

\* C15: for every connection, the owner gets "_connected_" before any line
\* of the server; the first line is never delivered with the keyword
\* "teamtalk" (it is delivered as "welcome"); the watcher and the pinger
\* run only after the welcome line was delivered, and when they are started
\* me and info hold the userid of that line; and when connect() returns
\* from the handshake of the connection the session still has, the state
\* is connected and me and info hold the userid of the welcome line.
C15_Handshake ==
  [][ /\ \A c \in Conns :
           /\ \A k \in 1..Len(obs'.hs[c]) :
                /\ obs'.hs[c][k].ev # "teamtalk"
                /\ obs'.hs[c][k].ev \notin {"_connected_", "_disconnected_"}
                     => (k = 2 /\ obs'.hs[c][1].ev = "_connected_")
           /\ (thr'[W(c)].pc # "unused" \/ thr'[P(c)].pc # "unused") => Welcomed(c)'
           /\ (thr[W(c)].pc = "unused" /\ thr'[W(c)].pc # "unused")
                => /\ thr'[P(c)].pc # "unused"
                   /\ obs'.last.line = obs'.hs[c][2]
                   /\ obs'.last.raw \in {"welcome", "teamtalk"}
                   /\ srv'.me = obs'.hs[c][2].arg
                   /\ srv'.info.userid = obs'.hs[c][2].arg
                   /\ srv'.me \in DOMAIN srv'.users
      /\ \A t \in LoginThreads :
           ( /\ thr[t].pc = "sc_connected" /\ thr'[t].pc # "sc_connected"
             /\ srv.conn = thr[t].conn )
             => /\ srv'.state = "connected"
                /\ Welcomed(thr[t].conn)
                /\ srv'.me = obs.hs[thr[t].conn][2].arg
                /\ srv'.info.userid = obs.hs[thr[t].conn][2].arg
    ]_vars

\* connect() has returned from a handshake whose first line began with
\* "teamtalk".
C15_Witness ==
  /\ obs.last.raw = "teamtalk" /\ obs.last.line = Ln("welcome", MyUid)
  /\ Welcomed(1) /\ srv.conn = 1 /\ srv.state = "connected"
  /\ srv.me = MyUid /\ srv.info.userid = MyUid
  /\ thr[W(1)].pc = "w_read" /\ thr[P(1)].pc = "p_loop"
  /\ thr[User].pc = "lg_check"

\* C16: a first line whose keyword is not "welcome" is not handed to the
\* owner (after "_connected_" the owner gets the welcome line or
\* "_disconnected_"); the connection it came on gets no watcher and no
\* pinger, and "_disconnected_" is emitted once for it.
C16_FirstFrameDropped ==
  \A c \in Conns :
    (Len(obs.hs[c]) = 2 /\ obs.hs[c][1].ev = "_connected_")
      => /\ obs.hs[c][2].ev \in {"welcome", "_disconnected_"}
         /\ obs.hs[c][2].ev # "welcome"
              => /\ thr[W(c)].pc = "unused" /\ thr[P(c)].pc = "unused"
                 /\ obs.disc[c] = 1

\* C17: whenever me is set, users holds under me.userid the very record me
\* refers to.
C17_MeInUsers ==
  srv.me # 0 => (srv.me \in DOMAIN srv.users /\ ~srv.meCut)

\* C18: every user record that carries a channel id, under either name,
\* carries the id of a channel that channels holds.
C18_UserChannelKnown ==
  \A u \in DOMAIN srv.users :
    \A k \in {"chanid", "channelid"} \cap DOMAIN srv.users[u] :
      srv.users[u][k] \in DOMAIN srv.channels

\* C19: the path stored in a channel record is the path its names give
\* along the parentid chain now, for every channel that has a path and whose
\* chain ends at a channel with parentid 0.
C19_PathFromNames ==
  \A c \in DOMAIN srv.channels :
    ("channel" \in DOMAIN srv.channels[c] /\ pathOf(srv.channels, srv.channels[c]).ok)
      => srv.channels[c]["channel"] = pathOf(srv.channels, srv.channels[c]).path

\* The records of the users and of the channels.
Records ==
  { srv.users[u] : u \in DOMAIN srv.users }
    \cup { srv.channels[c] : c \in DOMAIN srv.channels }

\* C20: no record stores both chanid and channelid, and reading chanid
\* gives what reading channelid gives.
C20_AliasOneKey ==
  \A r \in Records :
    /\ ~("chanid" \in DOMAIN r /\ "channelid" \in DOMAIN r)
    /\ getattr(r, "chanid") = getattr(r, "channelid")

\* C21: the text that makeline gives for an event and a parameter value is
\* parsed without an error, into a ParmLine equal to the one it was made
\* from.
C21_RoundTrip ==
  obs.codec.stage = "parsed"
    => (obs.codec.q.ok /\ parmLineEq(obs.codec.p, obs.codec.q))

\* C22: the text of a StringParm made from a raw string is parsed back into
\* a string parameter whose value is that raw string, with nothing left of
\* the line.
C22_RawRoundTrip ==
  obs.codec.stage = "parsed"
    => /\ obs.codec.q.ok
       /\ obs.codec.q.value = obs.codec.value
       /\ obs.codec.q.rest = <<>>

\* The i-th trigger of the server matches the line of the latest call.
Matches(i) ==
  \E k \in 1..Len(srv.triggers[i].matches) :
    /\ isMatch(srv.triggers[i].matches[k], obs.hook.line, obs.hook.flags).result
    /\ \A h \in 1..(k - 1) : ~isMatch(srv.triggers[i].matches[h], obs.hook.line,
                      obs.hook.flags).raised

\* C23: when the triggers are applied to an event, every action of every
\* trigger that matches it is run.
C23_EveryMatching ==
  (obs.hook.stage = "called" /\ obs.hook.applied)
    => \A i \in 1..Len(srv.triggers) :
         Matches(i)
           => \A j \in 1..Len(srv.triggers[i].actions) :
                \E r \in 1..Len(obs.hook.runs) :
                  obs.hook.runs[r].trigger = i /\ obs.hook.runs[r].action = j

\* C24: the triggers are applied to no stats, useraccount or userbanned
\* line, and once to every other line that was dispatched to its handler.
C24_OfferedOnce ==
  /\ obs.last.line.ev \in {"stats", "useraccount", "userbanned"}
       => obs.last.offered = 0
  /\ (obs.last.handled
        /\ obs.last.line.ev \notin {"stats", "useraccount", "userbanned"})
       => obs.last.offered = 1

\* C25: the frame that a send action puts on the wire is the action's text
\* after "send", with every %(name) replaced by name="value" in the quoted
\* form, followed by CRLF.
C25_SendQuoted ==
  (obs.hook.stage = "called" /\ obs.hook.applied)
    => \A r \in 1..Len(obs.hook.runs) :
         obs.hook.runs[r].kind = "send"
           => obs.hook.runs[r].frame = obs.hook.runs[r].sub \o <<"\r", "\n">>

\* The text inside the brackets of "[...]:port", or the text itself.
Inner(a) ==
  IF a # <<>> /\ a[1] = "[" /\ (\E i \in 2..Len(a) : a[i] = "]")
  THEN SubSeq(a, 2, (CHOOSE i \in 2..Len(a) :
                       a[i] = "]" /\ \A j \in 2..(i - 1) : a[j] # "]") - 1)
  ELSE a

\* Without a leading "::ffff:", unless m begins with ":".
Plain(a, m) ==
  IF (m = <<>> \/ m[1] # ":") /\ Len(a) >= 7 /\ SubSeq(a, 1, 7) = <<":", ":", "f", "f", "f", "f", ":">>
  THEN SubSeq(a, 8, Len(a)) ELSE a

\* Without a trailing ":port".
NoPort(a) ==
  IF \E n \in 1..(Len(a) - 1) :
       a[Len(a) - n] = ":" /\ \A j \in (Len(a) - n + 1)..Len(a) : a[j] \in Digits
  THEN SubSeq(a, 1, Len(a) -
                (CHOOSE n \in 1..(Len(a) - 1) :
                   a[Len(a) - n] = ":"
                     /\ \A j \in (Len(a) - n + 1)..Len(a) : a[j] \in Digits) - 1)
  ELSE a

\* m, with "." at its end when it has fewer than 4 dotted components.
WithDot(m) ==
  IF Cardinality({ i \in 1..Len(m) : m[i] = "." }) < 3 THEN m \o <<".">> ELSE m

\* The value a of a parameter is an address that address=m asks for.
AddressOf(a, m) ==
  /\ Len(WithDot(m)) <= Len(NoPort(Plain(Inner(a), m)))
  /\ \A i \in 1..Len(WithDot(m)) : NoPort(Plain(Inner(a), m))[i] = WithDot(m)[i]

\* C26: a match spec with address=m succeeds on an event exactly when a
\* parameter whose name ends in "addr" has a value that, less its
\* brackets, "::ffff:" and port, starts with m (with its dot); so 10.0.1
\* matches 10.0.1.7 and [::ffff:10.0.1.7]:4432, and not 10.0.10.7.
C26_Address ==
  obs.hook.stage = "matched"
    => /\ ~obs.hook.match.raised
       /\ obs.hook.match.result
            <=> \E i \in 1..Len(obs.hook.line.parms) :
                  /\ endswith(obs.hook.line.parms[i][1], <<"a", "d", "d", "r">>)
                  /\ AddressOf(obs.hook.line.parms[i][2], obs.hook.m)
       /\ (obs.hook.m = <<"1", "0", ".", "0", ".", "1">>
             /\ obs.hook.line.parms
                  \in {<<<<ipaddr, <<"1", "0", ".", "0", ".", "1", ".", "7">>>>>>,
                       <<<<udpaddr, <<"[", ":", ":", "f", "f", "f", "f", ":", "1", "0", ".", "0", ".", "1", ".", "7", "]", ":", "4", "4", "3", "2">>>>>>})
            => obs.hook.match.result
       /\ (obs.hook.m = <<"1", "0", ".", "0", ".", "1">>
             /\ obs.hook.line.parms \in {<<<<ipaddr, <<"1", "0", ".", "0", ".", "1", "0", ".", "7">>>>>>, <<>>})
            => ~obs.hook.match.result

\* C27: a session that a reload took out of the registry is disconnected
\* and stays so: it makes no connection and sends no frame.
C27_RemovedIsClosed ==
  [][~srv'.registered => /\ srv'.state = "disconnected"
                         /\ \A c \in Conns : conns'[c].net # "up"
                         /\ nconn' = nconn
                         /\ obs'.nsent = obs.nsent]_vars


\* The first word of a text.
firstWord(text) ==
  IF \E i \in 1..Len(text) : text[i] = " "
  THEN SubSeq(text, 1, (CHOOSE i \in 1..Len(text) :
                          text[i] = " " /\ \A j \in 1..(i - 1) : text[j] # " ") - 1)
  ELSE text

\* The line's first word has a character that is neither a letter nor "_".
OtherChar(ev) ==
  /\ ev \in Texts
  /\ \E i \in 1..Len(firstWord(textOf(ev))) :
       firstWord(textOf(ev))[i] \notin Letters \cup {"_"}

\* C28: a line that the watcher hands to processLine outside a collection,
\* and whose keyword has a character other than letters and "_", calls no
\* event handler, is reported as an invalid line, leaves the server object
\* as it was, and leaves the watcher running for the lines that follow.
C28_InvalidDiscarded ==
  [][(/\ nlines' = nlines + 1
      /\ obs'.rd.delivered
      /\ OtherChar(obs'.rd.line.ev)
      /\ ~obs'.last.eaten)
       => /\ ~obs'.last.handled
          /\ obs'.last.report = "Invalid line"
          /\ obs'.last.same
          /\ thr' = thr]_vars


ChannelKeys == {"chanid", "channel", "chanpassword"}

\* loginParms names a channel to join.
HasSpec(lp) == "chanid" \in DOMAIN lp \/ "channel" \in DOMAIN lp

\* The known channels with the path given.
Known(s, path) ==
  { k \in DOMAIN s.channels :
      "channel" \in DOMAIN s.channels[k] /\ s.channels[k]["channel"] = path }

\* Every known channel has a path: the channels came parents first.
AllPaths(s) == \A k \in DOMAIN s.channels : "channel" \in DOMAIN s.channels[k]

\* The channel that loginParms names (0: none): the chanid if there is
\* one, 1 for "/", else the one known channel with the path; a path is
\* not looked up among channels of which one has no path.
Target(s) ==
  IF "chanid" \in DOMAIN s.loginParms THEN s.loginParms["chanid"]
  ELSE IF s.loginParms["channel"] = <<>> THEN 1
  ELSE IF ~AllPaths(s) THEN 0
  ELSE IF Cardinality(Known(s, s.loginParms["channel"])) = 1
  THEN CHOOSE k \in Known(s, s.loginParms["channel"]) : TRUE
  ELSE 0

\* The join line for the channel that loginParms names.
JoinFor(s) ==
  [raised |-> FALSE, sent |-> TRUE, chanid |-> Target(s),
   password |-> IF "chanpassword" \in DOMAIN s.loginParms
                THEN s.loginParms["chanpassword"] ELSE ""]

\* The watcher hands an "ok" to its handler in state loggingIn, after the
\* login line went out on the connection of the session and while that
\* connection is open, and loginParms names a channel.
OkStep ==
  /\ nlines' = nlines + 1
  /\ obs'.rd.delivered /\ obs'.rd.line.ev = "ok"
  /\ obs'.last.lg /\ obs'.last.handled
  /\ obs.sent.kind = "login" /\ obs.sent.conn = srv.conn
  /\ connUp(srv)
  /\ HasSpec(srv.loginParms)

C30_EffectiveTimeout ==
  [][\A c \in Conns :
       /\ obs'.eff[c] # 0 => conns'[c].usertimeout = obs'.eff[c]
       /\ obs'.slept[c] # obs.slept[c] =>
            obs'.slept[c] = pingtime(obs.eff[c])]_vars


\* A text of the list lst has the text pat in it.
Contains(lst, pat) ==
  \E k \in 1..Len(lst) : \E i \in 1..(Len(lst[k]) - Len(pat) + 1) :
    SubSeq(lst[k], i, i + Len(pat) - 1) = pat

\* The update of this step takes the user from statusmode m1 to m2 with
\* the statusmsg s2.
StatusGoes(m1, m2, s2) ==
  /\ obs'.hook.n # obs.hook.n
  /\ get(obs.hook.user, "statusmode") = m1
  /\ get(obs'.hook.user, "statusmode") = m2
  /\ get(obs'.hook.user, "statusmsg") = s2

\* The seconds since the latest status change of the user.
Elapsed == obs.hook.now - obs.hook.user["statustime"]

C32_FailureConfined ==
  [][(/\ nlines' = nlines + 1
      /\ obs'.rd.delivered
      /\ obs'.last.report = "Event dispatch failure")
       => \A c \in Conns : thr'[W(c)].pc = thr[W(c)].pc]_vars


\* The connection objects whose watcher reads lines from an open socket and
\* hands them to the session.
Live == { c \in Conns : /\ conns[c].net = "up" /\ conns[c].callback
                        /\ thr[W(c)].pc = "w_read" }

\* A login line goes out in this step.
LoginSent == obs'.nsent # obs.nsent /\ obs'.sent.kind = "login"

\* C33: at most one connection object of the session is live at a time, and
\* a login line goes out only when the state of the session is "connected"
\* and on a connection that has handed its welcome line to the session.
C33_OneLiveConnection ==
  [][/\ Cardinality(Live') <= 1
     /\ LoginSent =>
          /\ srv.state = "connected"
          /\ \E i \in 1..Len(obs.hs[obs'.sent.conn]) :
               obs.hs[obs'.sent.conn][i].ev = "welcome"]_vars


\* C34: a "_disconnected_" that comes from a connection object other than
\* the one the session holds, when the session holds one with an open
\* socket, changes neither the state of the session, nor its connection,
\* users and channels, and starts no reconnect timer.
C34_StaleEventsIgnored ==
  [][\A c \in Conns :
       (/\ obs'.disc[c] > obs.disc[c]
        /\ srv.conn \notin {0, c}
        /\ conns[srv.conn].net = "up")
         => /\ srv'.state = srv.state
            /\ srv'.conn = srv.conn
            /\ srv'.users = srv.users
            /\ srv'.channels = srv.channels
            /\ ntimers' = ntimers]_vars


\* The threads that wait in the sendWithWait of a trigger action.
TriggerWaits == { t \in Threads : thr[t].pc = "sw_wait" /\ thr[t].cmd = "trigger" }

\* C35: while the sendWithWait of a trigger action waits for the end of
\* its response, the watcher of the connection goes on reading and
\* dispatching lines, so that the "end id=<n>" of the response ends the
\* wait; the wait does not end by its timeout when no thread could have
\* read a line.
C35_TriggerWaitReads ==
  [][\A t \in TriggerWaits :
       /\ thr[W(thr[t].conn)].pc = "w_read"
       /\ (thr'[t].pc # "sw_wait" /\ ~srv.ev_idblockDone) =>
            \E c \in Conns : thr[W(c)].pc = "w_read" /\ conns[c].net = "up"]_vars


\* C36: login() called by the command thread returns: when the socket of
\* its connection cannot connect it returns False, not going round the
\* loop of connect() again; when its wait for the reply to the login frame
\* ends without a reply it returns False, and the connection stays open.
C36_ForegroundLoginReturns ==
  [][/\ (thr[User].pc = "cc_sock" /\ conns'[thr[User].conn].net = "down")
          => thr'[User].pc = "idle" /\ obs'.login = "False"
     /\ (thr[User].pc = "lg_wait" /\ thr'[User].pc # "lg_wait" /\ ~srv.ev_loggedIn)
          => /\ thr'[User].pc = "idle" /\ obs'.login = "False"
             /\ srv'.conn = srv.conn /\ conns' = conns]_vars


\* "_connected_" is processed in this step.
ConnectedStep ==
  \E t \in LoginThreads :
    thr[t].pc = "cc_sock" /\ thr'[t].pc # "cc_sock" /\ conns'[thr[t].conn].net = "up"

\* A command of the user begins in this step.
CommandStep == ncmds' # ncmds

\* A watcher hands a line of the server to the session in this step.
ServerLine == nlines' # nlines /\ obs'.rd.delivered

\* The changes of _collecting by the lines of the server, the sends and
\* the ends of the waits.
Collects(a, b) ==
  \/ a = 0 /\ b = 1 /\ CommandStep
  \/ a = 1 /\ b = 2 /\ ServerLine /\ obs'.rd.line = Ln("begin", srv.waitID)
  \/ a = 2 /\ b = 0 /\ ServerLine /\ obs'.rd.line = Ln("end", srv.waitID)
  \/ b = 0 /\ WaitEnds

\* What holds of _collecting in every step, the changes apart.
CollectingKept ==
  /\ srv'.collecting \in {0, 1, 2}
  /\ (WaitEnds /\ thr[User].rr) => srv'.collecting = 0
  /\ (/\ srv.collecting = 1 /\ ServerLine
      /\ obs'.rd.line # Ln("begin", srv.waitID))
       => /\ srv'.collecting = 1
          /\ ~obs'.last.eaten /\ obs'.last.line = obs'.rd.line

\* C37: _collecting is 0, 1 or 2 and changes only from 0 to 1 when a send
\* that collects its response starts, from 1 to 2 on "begin id=<waitID>",
\* from 2 to 0 on "end id=<waitID>", "_connected_" or "_disconnected_", and
\* to 0 when the sender ends its wait; while it is 1 a line other than
\* "begin id=<waitID>" is dispatched and leaves it at 1.
C37_CollectingSteps ==
  [][/\ CollectingKept
     /\ srv'.collecting # srv.collecting =>
          \/ Collects(srv.collecting, srv'.collecting)
          \/ /\ srv.collecting = 2 /\ srv'.collecting = 0
             /\ ConnectedStep \/ DisconnectedStep]_vars

\* C37 as the code has it: "_connected_" and "_disconnected_" take
\* _collecting to 0 from 1 as well as from 2.
C37_CollectingStepsAmended ==
  [][/\ CollectingKept
     /\ srv'.collecting # srv.collecting =>
          \/ Collects(srv.collecting, srv'.collecting)
          \/ /\ srv.collecting \in {1, 2} /\ srv'.collecting = 0
             /\ ConnectedStep \/ DisconnectedStep]_vars

\* "_disconnected_" came before the begin of the response that a sender
\* was waiting to collect.
C37_Witness ==
  /\ obs.last.line = Disconnected /\ obs.last.coll = 1 /\ ~obs.last.eaten
  /\ srv.collecting = 0


\* The call of processLine was for a begin or end marker of the request of
\* the session itself.
OwnMarker(call) ==
  call.wait # 0 /\ call.line.ev \in {"begin", "end"} /\ idIs(call.line, call.wait)

\* C38: a line handed to processLine that the collection does not eat and
\* that is no begin or end marker of the session's own request gets the two
\* calls of hookEvents, the one before the handler and the one after it,
\* whether the handler raises or the event has no handler; a marker of the
\* session's own request gets neither.
C38_HooksBracket ==
  (obs.last.line # NoLine /\ ~obs.last.eaten)
    => obs.last.hooks = IF OwnMarker(obs.last) THEN 0 ELSE 2


\* A watcher hands a line to processLine in this step (a watcher that
\* finds its connection shutting down ends without doing so).
Dispatched ==
  /\ nlines' # nlines /\ obs'.rd.delivered
  /\ ~\E c \in Conns : /\ conns[c].shuttingDown
                       /\ thr[W(c)].pc = "w_read" /\ thr'[W(c)].pc # "w_read"

\* The line "ev userid=uid ..." is dispatched in this step.
UserEvent(ev, uid) ==
  /\ Dispatched /\ ~obs'.last.eaten
  /\ obs'.last.line.ev = ev
  /\ getattr(parmsOf(obs'.last.line), "userid") = uid

\* The record of uid is marked temporary in the users of s.
Temporary(s, uid) == uid \in DOMAIN s.users /\ "temporary" \in DOMAIN s.users[uid]

\* The record of uid is in the users of s and was not made by adduser or
\* updateuser.
Announced(s, uid) == uid \in DOMAIN s.users /\ "temporary" \notin DOMAIN s.users[uid]

\* C39: adduser or updateuser for a userid without a record makes a record
\* marked temporary; removeuser deletes a temporary record; removeuser
\* keeps a record made by loggedin and takes its channel away; and after
\* "loggedout userid=N" there is no record of N.
C39_TemporaryUsers ==
  [][\A uid \in {MyUid, OtherUid} :
       /\ ((UserEvent("adduser", uid) \/ UserEvent("updateuser", uid))
            /\ uid \notin DOMAIN srv.users) => Temporary(srv', uid)
       /\ (UserEvent("removeuser", uid) /\ Temporary(srv, uid))
            => uid \notin DOMAIN srv'.users
       /\ (UserEvent("removeuser", uid) /\ Announced(srv, uid))
            => /\ Announced(srv', uid)
               /\ ~hasitem(srv'.users[uid], "channelid")
       /\ UserEvent("loggedout", uid) => uid \notin DOMAIN srv'.users]_vars


\* A command of the user takes the connection c of the session down in
\* this step: disconnect, or terminate (seen where it sets autoLogin to 0).
UserEnds(c) ==
  /\ srv.conn = c /\ obs'.disc[c] > obs.disc[c]
  /\ \/ thr[User].pc = "dd_check" /\ thr'[User].pc # "dd_check"
     \/ /\ thr[User].pc = "idle" /\ ncmds' # ncmds
        /\ srv.autoLogin # 0 /\ srv'.autoLogin = 0

\* The watcher of c could hand a line to the session.
CanRead(c) ==
  /\ thr[W(c)].pc = "w_read" /\ conns[c].net = "up"
  /\ ~conns[c].shuttingDown /\ conns[c].callback

\* C40: when the user disconnects or terminates the session, the
\* connection of the session is shutting down and its socket is closed
\* afterwards; and a line is handed to the session only by the watcher of
\* a connection that was not taken down.
C40_ShutdownStops ==
  [][/\ \A c \in Conns :
          UserEnds(c) => conns'[c].shuttingDown /\ conns'[c].closed
     /\ Dispatched => \E c \in Conns : CanRead(c) /\ obs.disc[c] = 0]_vars

====
